---------------------------- MODULE Spec2Model ----------------------------
(***************************************************************************)
(* A model of the browser-side record store of visa-guide-aia.             *)
(*                                                                         *)
(* The repository holds two implementations of the global `Storage`        *)
(* object: src/storage.js (keys visa_users, visa_current_user,             *)
(* visa_applications) and the second module of src/unnamed/part_000 (keys  *)
(* prefixed visa_guide_), the latter driven by src/js/auth.js.  A page     *)
(* loads one of them (both assign window.Storage), so `impl` is chosen     *)
(* once and the operations of the other implementation are disabled.       *)
(*                                                                         *)
(* Encoding of JavaScript values:                                          *)
(*   - an object is a function from its own keys to values; a key that is  *)
(*     absent is `undefined` (JSON.stringify drops undefined properties,   *)
(*     so nothing stored ever has a key bound to undefined);               *)
(*   - a string that the code inspects (emails, names, passwords) is a     *)
(*     sequence of one-character strings; other strings are TLA+ strings;  *)
(*   - null / a missing localStorage key is Null (the empty sequence) and  *)
(*     a present value v is Some(v);                                       *)
(*   - an array is a sequence; indices are 1-based and findIndex's -1 is   *)
(*     0;                                                                  *)
(*   - generateId is a fresh-id generator: prefix and a counter;           *)
(*   - new Date().toISOString() is drawn from Timestamps.                  *)
(***************************************************************************)
EXTENDS Integers, Sequences, FiniteSets, TLC

VARIABLES
    impl,               \* which Storage implementation the page loaded
    tabs,               \* tab -> the addApplication call a browser tab is in the middle of
    exported,           \* the object exportUserData returned last, kept by the caller as a backup
    visa_users,         \* localStorage['visa_users'] (storage.js)
    visa_current_user,  \* localStorage['visa_current_user']
    visa_applications,  \* localStorage['visa_applications']
    usrCount,           \* ids generated with prefix usr_
    appCount,           \* ids generated with prefix app_
    visa_guide_users,           \* localStorage['visa_guide_users'] (part_000)
    visa_guide_current_user,    \* localStorage['visa_guide_current_user']
    visa_guide_user_data,       \* userId -> localStorage['visa_guide_user_data_' + userId]
    visa_guide_documents,       \* userId -> localStorage['visa_guide_documents_' + userId]
    visa_guide_forms,           \* userId -> localStorage['visa_guide_forms_' + userId]
    visa_guide_chat_history,    \* userId -> localStorage['visa_guide_chat_history_' + userId]
    visa_guide_civics_progress, \* userId -> localStorage['visa_guide_civics_progress_' + userId]
    guideCount,         \* ids generated by part_000's generateId
    spliced,            \* how many entries addChatMessage's last splice removed
    lastCall,           \* the operation last called and its arguments
    lastResult          \* what that call returned

storageVars == <<visa_users, visa_current_user, visa_applications, usrCount, appCount>>

guideUserVars == <<visa_guide_users, visa_guide_current_user, guideCount>>

guideDataVars == <<visa_guide_user_data, visa_guide_documents, visa_guide_forms,
                   visa_guide_chat_history, visa_guide_civics_progress, spliced>>

guideVars == <<guideUserVars, guideDataVars>>

vars == <<impl, tabs, exported, storageVars, guideVars, lastCall, lastResult>>

-----------------------------------------------------------------------------
(* Bounds of the model *)

MaxUsers == 2

MaxAppIds == 2

\* ids part_000's generateId hands out while accounts are deleted and registered anew
MaxGuideIds == 3

\* entries per user and per store in the run of the per-user stores
MaxDataItems == 1

\* document ids handed out in that run
MaxDocIds == 2
MaxChatSeq == 103

-----------------------------------------------------------------------------
(* JavaScript values *)

Null == <<>>

Some(v) == <<v>>

EmptyObject == [k \in {} |-> 0]

Has(o, k) == k \in DOMAIN o

\* {...a, ...b}: b's keys override a's
Spread(a, b) == [k \in (DOMAIN a) \cup (DOMAIN b) |-> IF k \in DOMAIN b THEN b[k] ELSE a[k]]

\* delete o[k]
Delete(o, k) == [j \in (DOMAIN o) \ {k} |-> o[j]]

\* !o[k] for a string property: undefined and '' are falsy
Falsy(o, k) == ~Has(o, k) \/ o[k] = <<>>

LowerChar(c) == CASE c = "A" -> "a" [] c = "B" -> "b" [] OTHER -> c

ToLowerCase(s) == [i \in 1..Len(s) |-> LowerChar(s[i])]

IsSpace(c) == c = " "

RECURSIVE TrimStart(_)
TrimStart(s) == IF s # <<>> /\ IsSpace(Head(s)) THEN TrimStart(Tail(s)) ELSE s

RECURSIVE TrimEnd(_)
TrimEnd(s) == IF s # <<>> /\ IsSpace(s[Len(s)]) THEN TrimEnd(SubSeq(s, 1, Len(s) - 1)) ELSE s

Trim(s) == TrimEnd(TrimStart(s))

\* Array.prototype.findIndex: the first index whose element satisfies P, 0 when none
FindIndex(arr, P(_)) ==
    IF \E i \in 1..Len(arr) : P(arr[i])
    THEN CHOOSE i \in 1..Len(arr) : P(arr[i]) /\ \A j \in 1..(i - 1) : ~P(arr[j])
    ELSE 0

\* Array.prototype.filter is SelectSeq of Sequences

Timestamps == {"T1"}


-----------------------------------------------------------------------------
(* Input sets: the arguments the callers may pass *)

UsrId(n) == <<"usr_", n>>

AppId(n) == <<"app_", n>>

\* usr_0 / app_0 are ids no generateId call of this store returns
\* (a record made elsewhere and brought in by importUserData)
UserIds == {UsrId(n) : n \in 0..MaxUsers}

ApplicationIds == {AppId(n) : n \in 0..MaxAppIds}

Char == {"a", "A", "b", " "}

Emails == {<<"a">>, <<"A">>, <<" ", "a">>, <<"b">>, <<>>}

PlainEmails == {<<"a">>, <<"b">>, <<>>}

Passwords == {<<"p">>, <<"q">>}

\* registration forms: complete ones and one with a required field left empty
UserDatas(emails) ==
    {[name |-> <<"n">>, email |-> e, password |-> <<"p">>] : e \in emails}
    \cup {[name |-> <<>>, email |-> <<"a">>, password |-> <<"p">>],
          [name |-> <<"n">>, email |-> <<"a">>, password |-> <<>>]}

ProfileDatas == { EmptyObject, [fullName |-> <<"m">>, email |-> <<"z">>] }

ApplicationDatas ==
    { [destination |-> "France", visaType |-> "tourist"],
      [userId |-> UsrId(0)],
      [id |-> AppId(1)] }

UpdateDatas == { [status |-> "approved"] }

Statuses == {"approved", "rejected"}

\* the shape exportUserData returns (no password, no applications list on the
\* user), an invalid payload, and a payload without a user
ImportDatas ==
    { [user |-> [id |-> UsrId(0), name |-> <<"n">>, email |-> <<"A">>, createdAt |-> "T1",
                 profile |-> [fullName |-> <<"n">>, email |-> <<"A">>, phone |-> <<>>,
                              nationality |-> <<>>, currentLocation |-> <<>>]],
       applications |-> <<[id |-> AppId(0), userId |-> UsrId(0), status |-> "approved",
                           createdAt |-> "T0", updatedAt |-> "T0", approvedAt |-> "T0"]>>],
      [user |-> [id |-> UsrId(0), email |-> <<>>]],
      [applications |-> <<>>] }

-----------------------------------------------------------------------------
(* src/storage.js: the Storage object *)

Success(o) == Spread([success |-> TRUE], o)

Failure(msg) == [success |-> FALSE, message |-> msg]

\* an exception that leaves the call (no result object is returned)
Threw(e) == [threw |-> e]

\* Storage.set(key, value): setItem inside try/catch; when setItem throws (the
\* quota is exceeded) the key keeps its stored value and set returns false.
\* failing is the set of keys whose setItem throws during the call.
\* a set whose setItem never throws
Set_neverFails(key, stored, value, failing) == value

Set(key, stored, value, failing) == IF key \in failing THEN stored ELSE value

\* the record of a call; the keys whose write was attempted and failed are
\* noted when there are any
Call(op, args, failedWrites) ==
    IF failedWrites = {} THEN [op |-> op, args |-> args]
    ELSE [op |-> op, args |-> args, failed |-> failedWrites]

StorageKeys == {"visa_users", "visa_current_user", "visa_applications"}

getCurrentUser == visa_current_user

getUsers == visa_users

getApplications == visa_applications

\* a lookup that compares the emails as they are
findUserByEmail_caseSensitive(email) ==
    LET i == FindIndex(getUsers, LAMBDA user : user.email = email)
    IN  IF i = 0 THEN Null ELSE Some(getUsers[i])

findUserByEmail(email) ==
    LET i == FindIndex(getUsers, LAMBDA user : ToLowerCase(user.email) = ToLowerCase(email))
    IN  IF i = 0 THEN Null ELSE Some(getUsers[i])

\* a lookup that settles for the first stored user
findUserById_firstUser(userId) == IF getUsers = <<>> THEN Null ELSE Some(getUsers[1])

findUserById(userId) ==
    LET i == FindIndex(getUsers, LAMBDA user : user.id = userId)
    IN  IF i = 0 THEN Null ELSE Some(getUsers[i])

\* const sessionUser = { ...user }; delete sessionUser.password;
SessionUser(user) == Delete(user, "password")

\* userData.phone || ''
OrEmpty(o, k) == IF Falsy(o, k) THEN <<>> ELSE o[k]

\* the literal with the email stored as it was typed
NewUser_emailAsTyped(userData, id, t) ==
    [ id |-> id,
      name |-> Trim(userData.name),
      email |-> userData.email,
      password |-> userData.password,
      createdAt |-> t,
      profile |-> [ fullName |-> Trim(userData.name),
                    email |-> userData.email,
                    phone |-> OrEmpty(userData, "phone"),
                    nationality |-> OrEmpty(userData, "nationality"),
                    currentLocation |-> OrEmpty(userData, "currentLocation") ],
      applications |-> <<>> ]

\* the newUser object literal of registerUser
NewUser(userData, id, t) ==
    [ id |-> id,
      name |-> Trim(userData.name),
      email |-> ToLowerCase(Trim(userData.email)),
      password |-> userData.password,
      createdAt |-> t,
      profile |-> [ fullName |-> Trim(userData.name),
                    email |-> ToLowerCase(Trim(userData.email)),
                    phone |-> OrEmpty(userData, "phone"),
                    nationality |-> OrEmpty(userData, "nationality"),
                    currentLocation |-> OrEmpty(userData, "currentLocation") ],
      applications |-> <<>> ]

\* what registerUser hands to setCurrentUser
RegisteredSession(newUser) == newUser

\* registerUser while setItem throws for the keys in failing: saveUsers and
\* setCurrentUser drop the boolean that set returns
registerUserUnder(userData, failing) ==
    /\ impl = "storage" /\ UNCHANGED <<impl, guideVars, tabs, exported>>
    /\ IF Falsy(userData, "email") \/ Falsy(userData, "password") \/ Falsy(userData, "name")
       THEN /\ lastCall' = Call("registerUser", <<userData>>, {})
            /\ lastResult' = Failure("Please fill in all required fields")
            /\ UNCHANGED storageVars
       ELSE IF findUserByEmail(userData.email) # Null
       THEN /\ lastCall' = Call("registerUser", <<userData>>, {})
            /\ lastResult' = Failure("This email is already registered")
            /\ UNCHANGED storageVars
       ELSE /\ Len(visa_users) < MaxUsers /\ usrCount < MaxUsers
            /\ lastCall' = Call("registerUser", <<userData>>,
                                failing \cap {"visa_users", "visa_current_user"})
            /\ \E t \in Timestamps :
                 LET newUser == NewUser(userData, UsrId(usrCount + 1), t) IN
                 /\ usrCount' = usrCount + 1
                 /\ visa_users' = Set("visa_users", visa_users, Append(getUsers, newUser), failing)
                 /\ visa_current_user' = Set("visa_current_user", visa_current_user,
                                             Some(RegisteredSession(newUser)), failing)
                 /\ lastResult' = Success([user |-> newUser])
            /\ UNCHANGED <<visa_applications, appCount>>

registerUser(userData) == registerUserUnder(userData, {})

\* a check that accepts every password
PasswordMatches_always(user, password) == TRUE

\* user.password !== password, negated
PasswordMatches(user, password) == Has(user, "password") /\ user.password = password

loginUser(email, password) ==
    /\ impl = "storage" /\ UNCHANGED <<impl, guideVars, tabs, exported>>
    /\ lastCall' = [op |-> "loginUser", args |-> <<email, password>>]
    /\ LET user == findUserByEmail(email) IN
       IF email = <<>> \/ password = <<>>
       THEN /\ lastResult' = Failure("Please enter both email and password")
            /\ UNCHANGED storageVars
       ELSE IF user = Null
       THEN /\ lastResult' = Failure("No account found with this email address")
            /\ UNCHANGED storageVars
       ELSE IF ~PasswordMatches(user[1], password)
       THEN /\ lastResult' = Failure("Incorrect password. Please try again.")
            /\ UNCHANGED storageVars
       ELSE /\ visa_current_user' = Some(SessionUser(user[1]))
            /\ lastResult' = Success([user |-> SessionUser(user[1])])
            /\ UNCHANGED <<visa_users, visa_applications, usrCount, appCount>>

\* a logout that leaves the session key in place
logoutUser_keepsSession ==
    /\ impl = "storage" /\ UNCHANGED <<impl, guideVars, tabs, exported>>
    /\ lastCall' = [op |-> "logoutUser", args |-> <<>>]
    /\ lastResult' = Success([message |-> "Logged out successfully"])
    /\ UNCHANGED storageVars

logoutUser ==
    /\ impl = "storage" /\ UNCHANGED <<impl, guideVars, tabs, exported>>
    /\ lastCall' = [op |-> "logoutUser", args |-> <<>>]
    /\ visa_current_user' = Null
    /\ lastResult' = Success([message |-> "Logged out successfully"])
    /\ UNCHANGED <<visa_users, visa_applications, usrCount, appCount>>

\* the literal with the caller's fields spread after the email
UpdatedProfile_callerLast(user, profileData) ==
    Spread(Spread(IF Has(user, "profile") THEN user.profile ELSE EmptyObject, [email |-> user.email]),
           profileData)

\* the profile object literal of updateUserProfile
UpdatedProfile(user, profileData) ==
    Spread(Spread(IF Has(user, "profile") THEN user.profile ELSE EmptyObject, profileData),
           [email |-> user.email])

\* the user record updateUserProfile writes back
ProfileUpdatedUser(user, profileData) ==
    LET u == Spread(user, [profile |-> UpdatedProfile(user, profileData)])
    IN  IF ~Falsy(profileData, "fullName") THEN Spread(u, [name |-> profileData.fullName]) ELSE u

updateUserProfileUnder(userId, profileData, failing) ==
    /\ impl = "storage" /\ UNCHANGED <<impl, guideVars, tabs, exported>>
    /\ LET userIndex == FindIndex(getUsers, LAMBDA u : u.id = userId) IN
       IF userIndex = 0
       THEN /\ lastCall' = Call("updateUserProfile", <<userId, profileData>>, {})
            /\ lastResult' = Failure("User not found")
            /\ UNCHANGED storageVars
       ELSE LET users == [getUsers EXCEPT ![userIndex] = ProfileUpdatedUser(@, profileData)] IN
            /\ lastCall' = Call("updateUserProfile", <<userId, profileData>>,
                                failing \cap {"visa_users", "visa_current_user"})
            /\ visa_users' = Set("visa_users", visa_users, users, failing)
            /\ visa_current_user' = Set("visa_current_user", visa_current_user,
                                        Some(SessionUser(users[userIndex])), failing)
            /\ lastResult' = Success([user |-> SessionUser(users[userIndex])])
            /\ UNCHANGED <<visa_applications, usrCount, appCount>>

updateUserProfile(userId, profileData) == updateUserProfileUnder(userId, profileData, {})

updateUserPassword(userId, newPassword) ==
    /\ impl = "storage" /\ UNCHANGED <<impl, guideVars, tabs, exported>>
    /\ lastCall' = [op |-> "updateUserPassword", args |-> <<userId, newPassword>>]
    /\ LET userIndex == FindIndex(getUsers, LAMBDA u : u.id = userId) IN
       IF userIndex = 0
       THEN /\ lastResult' = Failure("User not found")
            /\ UNCHANGED storageVars
       ELSE /\ visa_users' = [getUsers EXCEPT ![userIndex] = Spread(@, [password |-> newPassword])]
            /\ lastResult' = Success([message |-> "Password updated successfully"])
            /\ UNCHANGED <<visa_current_user, visa_applications, usrCount, appCount>>

\* applications.filter(app => app.userId === userId)
ApplicationsOf(applications, userId) == SelectSeq(applications, LAMBDA app : app.userId = userId)

\* a listing read from the owner's embedded summary
getUserApplications_fromSummary(userId) ==
    LET i == FindIndex(getUsers, LAMBDA u : u.id = userId)
    IN  IF i = 0 \/ ~Has(getUsers[i], "applications") THEN <<>> ELSE getUsers[i].applications

getUserApplications(userId) == ApplicationsOf(getApplications, userId)

getApplicationById(applicationId) ==
    LET i == FindIndex(getApplications, LAMBDA app : app.id = applicationId)
    IN  IF i = 0 THEN Null ELSE Some(getApplications[i])

\* the newApplication object literal of addApplication: the caller's fields are
\* spread last
NewApplication(id, userId, t, applicationData) ==
    Spread([id |-> id, userId |-> userId, status |-> "pending", createdAt |-> t, updatedAt |-> t],
           applicationData)

SummaryKeys == {"id", "destination", "visaType", "status", "createdAt"}

\* the entry addApplication pushes on the user's applications list; a property
\* whose value is undefined is not stored
Summary(newApplication) == [k \in SummaryKeys \cap DOMAIN newApplication |-> newApplication[k]]

\* users[userIndex].applications = users[userIndex].applications || []; push(entry)
PushSummary(user, entry) ==
    Spread(user, [applications |-> Append(IF Has(user, "applications") THEN user.applications ELSE <<>>,
                                         entry)])

\* addApplication while setItem throws for the keys in failing: the three
\* writes are made in turn (applications, users, current user) and the result
\* of none of them is looked at
addApplicationUnder(userId, applicationData, failing) ==
    /\ impl = "storage" /\ UNCHANGED <<impl, guideVars, tabs, exported>>
    /\ IF findUserById(userId) = Null
       THEN /\ lastCall' = Call("addApplication", <<userId, applicationData>>, {})
            /\ lastResult' = Failure("User not found")
            /\ UNCHANGED storageVars
       ELSE /\ appCount < MaxAppIds
            /\ \E t \in Timestamps :
                 LET newApplication == NewApplication(AppId(appCount + 1), userId, t, applicationData)
                     userIndex == FindIndex(getUsers, LAMBDA u : u.id = userId)
                     users == [getUsers EXCEPT ![userIndex] = PushSummary(@, Summary(newApplication))]
                 IN  /\ appCount' = appCount + 1
                     /\ visa_applications' = Set("visa_applications", visa_applications,
                                                 Append(getApplications, newApplication), failing)
                     /\ IF userIndex # 0
                        THEN /\ lastCall' = Call("addApplication", <<userId, applicationData>>, failing)
                             /\ visa_users' = Set("visa_users", visa_users, users, failing)
                             /\ visa_current_user' = Set("visa_current_user", visa_current_user,
                                                         Some(SessionUser(users[userIndex])), failing)
                        ELSE /\ lastCall' = Call("addApplication", <<userId, applicationData>>,
                                                 failing \cap {"visa_applications"})
                             /\ UNCHANGED <<visa_users, visa_current_user>>
                     /\ lastResult' = Success([application |-> newApplication])
            /\ UNCHANGED usrCount

addApplication(userId, applicationData) == addApplicationUnder(userId, applicationData, {})

\* the browser tabs that have the page open on the same localStorage
Tabs == {1, 2}

\* a tab with no addApplication call under way; the fields are the parameters
\* and the local constants of addApplication
IdleTab ==
    [ pc |-> "idle", userId |-> Null, applicationData |-> Null, newApplication |-> Null,
      applications |-> Null, users |-> Null, userIndex |-> 0, result |-> Null ]

\* addApplication as it runs in one of several tabs: one step for each access
\* to localStorage, the other tabs free to run between two steps

\* findUserById and the newApplication literal
addApplication_findUserById(tab, userId, applicationData) ==
    /\ impl = "storage" /\ UNCHANGED <<impl, guideVars, exported>>
    /\ tabs[tab].pc \in {"idle", "returned"}
    /\ IF findUserById(userId) = Null
       THEN /\ tabs' = [tabs EXCEPT ![tab] =
                          [IdleTab EXCEPT !.pc = "returned", !.userId = userId,
                                          !.applicationData = applicationData,
                                          !.result = Failure("User not found")]]
            /\ lastCall' = [op |-> "addApplication", args |-> <<userId, applicationData>>]
            /\ lastResult' = Failure("User not found")
            /\ UNCHANGED storageVars
       ELSE /\ appCount < MaxAppIds
            /\ \E t \in Timestamps :
                 tabs' = [tabs EXCEPT ![tab] =
                            [IdleTab EXCEPT !.pc = "getApplications", !.userId = userId,
                                            !.applicationData = applicationData,
                                            !.newApplication =
                                                NewApplication(AppId(appCount + 1), userId, t,
                                                               applicationData)]]
            /\ appCount' = appCount + 1
            /\ UNCHANGED <<visa_users, visa_current_user, visa_applications, usrCount,
                           lastCall, lastResult>>

\* const applications = this.getApplications(); applications.push(newApplication)
addApplication_getApplications(tab) ==
    /\ impl = "storage" /\ UNCHANGED <<impl, guideVars, exported>>
    /\ tabs[tab].pc = "getApplications"
    /\ tabs' = [tabs EXCEPT ![tab].pc = "setApplications",
                            ![tab].applications = Append(getApplications, tabs[tab].newApplication)]
    /\ UNCHANGED <<storageVars, lastCall, lastResult>>

\* a write that reads the key again and appends to what is there now
WrittenApplications_merged(call) == Append(getApplications, call.newApplication)

\* the value this.set(this.APPLICATIONS_KEY, applications) stores: the array
\* read before, with the new application pushed
WrittenApplications(call) == call.applications

addApplication_setApplications(tab) ==
    /\ impl = "storage" /\ UNCHANGED <<impl, guideVars, exported>>
    /\ tabs[tab].pc = "setApplications"
    /\ visa_applications' = WrittenApplications(tabs[tab])
    /\ tabs' = [tabs EXCEPT ![tab].pc = "getUsers"]
    /\ UNCHANGED <<visa_users, visa_current_user, usrCount, appCount, lastCall, lastResult>>

\* const users = this.getUsers(); findIndex; the push on the embedded list
addApplication_getUsers(tab) ==
    /\ impl = "storage" /\ UNCHANGED <<impl, guideVars, exported>>
    /\ tabs[tab].pc = "getUsers"
    /\ LET userIndex == FindIndex(getUsers, LAMBDA u : u.id = tabs[tab].userId) IN
       IF userIndex = 0
       THEN /\ tabs' = [tabs EXCEPT ![tab].pc = "returned",
                                    ![tab].result =
                                        Success([application |-> tabs[tab].newApplication])]
            /\ lastCall' = [op |-> "addApplication",
                            args |-> <<tabs[tab].userId, tabs[tab].applicationData>>]
            /\ lastResult' = Success([application |-> tabs[tab].newApplication])
       ELSE /\ tabs' = [tabs EXCEPT ![tab].pc = "saveUsers",
                                    ![tab].userIndex = userIndex,
                                    ![tab].users =
                                        [getUsers EXCEPT ![userIndex] =
                                           PushSummary(@, Summary(tabs[tab].newApplication))]]
            /\ UNCHANGED <<lastCall, lastResult>>
    /\ UNCHANGED storageVars

addApplication_saveUsers(tab) ==
    /\ impl = "storage" /\ UNCHANGED <<impl, guideVars, exported>>
    /\ tabs[tab].pc = "saveUsers"
    /\ visa_users' = tabs[tab].users
    /\ tabs' = [tabs EXCEPT ![tab].pc = "setCurrentUser"]
    /\ UNCHANGED <<visa_current_user, visa_applications, usrCount, appCount, lastCall, lastResult>>

\* the session write and the return
addApplication_setCurrentUser(tab) ==
    /\ impl = "storage" /\ UNCHANGED <<impl, guideVars, exported>>
    /\ tabs[tab].pc = "setCurrentUser"
    /\ visa_current_user' = Some(SessionUser(tabs[tab].users[tabs[tab].userIndex]))
    /\ tabs' = [tabs EXCEPT ![tab].pc = "returned",
                            ![tab].result = Success([application |-> tabs[tab].newApplication])]
    /\ lastCall' = [op |-> "addApplication",
                    args |-> <<tabs[tab].userId, tabs[tab].applicationData>>]
    /\ lastResult' = Success([application |-> tabs[tab].newApplication])
    /\ UNCHANGED <<visa_users, visa_applications, usrCount, appCount>>

\* applications[appIndex] = { ...applications[appIndex], ...applicationData, updatedAt }
UpdatedApplication(app, applicationData, t) ==
    Spread(Spread(app, applicationData), [updatedAt |-> t])

\* a match on the id alone
MatchesApplication_idOnly(app, userId, applicationId) == app.id = applicationId

\* the predicate updateApplication finds the application with
MatchesApplication(app, userId, applicationId) == app.id = applicationId /\ app.userId = userId

updateApplicationUnder(userId, applicationId, applicationData, failing) ==
    /\ impl = "storage" /\ UNCHANGED <<impl, guideVars, tabs, exported>>
    /\ LET appIndex == FindIndex(getApplications,
                                 LAMBDA app : MatchesApplication(app, userId, applicationId)) IN
       IF appIndex = 0
       THEN /\ lastCall' = Call("updateApplication", <<userId, applicationId, applicationData>>, {})
            /\ lastResult' = Failure("Application not found")
            /\ UNCHANGED storageVars
       ELSE \E t \in Timestamps :
              LET applications == [getApplications EXCEPT
                                     ![appIndex] = UpdatedApplication(@, applicationData, t)]
              IN  /\ lastCall' = Call("updateApplication", <<userId, applicationId, applicationData>>,
                                      failing \cap {"visa_applications"})
                  /\ visa_applications' = Set("visa_applications", visa_applications,
                                              applications, failing)
                  /\ lastResult' = Success([application |-> applications[appIndex]])
                  /\ UNCHANGED <<visa_users, visa_current_user, usrCount, appCount>>

updateApplication(userId, applicationId, applicationData) ==
    updateApplicationUnder(userId, applicationId, applicationData, {})

\* the predicate deleteApplication filters the canonical collection with
KeepApplication(app, userId, applicationId) == ~(app.id = applicationId /\ app.userId = userId)

\* the predicate deleteApplication filters the embedded list with
KeepSummary(entry, applicationId) == entry.id # applicationId

\* deleteApplication while setItem throws for the keys in failing: the three
\* writes are made in turn (applications, users, current user) and the result
\* of none of them is looked at
deleteApplicationUnder(userId, applicationId, failing) ==
    /\ impl = "storage" /\ UNCHANGED <<impl, guideVars, tabs, exported>>
    /\ LET applications == SelectSeq(getApplications,
                                     LAMBDA app : KeepApplication(app, userId, applicationId))
           userIndex == FindIndex(getUsers, LAMBDA u : u.id = userId)
       IN
       IF Len(applications) = Len(getApplications)
       THEN /\ lastCall' = Call("deleteApplication", <<userId, applicationId>>, {})
            /\ lastResult' = Failure("Application not found")
            /\ UNCHANGED storageVars
       ELSE /\ visa_applications' = Set("visa_applications", visa_applications, applications, failing)
            /\ UNCHANGED <<usrCount, appCount>>
            /\ IF userIndex = 0
               THEN /\ lastCall' = Call("deleteApplication", <<userId, applicationId>>,
                                        failing \cap {"visa_applications"})
                    /\ lastResult' = Success([message |-> "Application deleted successfully"])
                    /\ UNCHANGED <<visa_users, visa_current_user>>
               ELSE IF ~Has(getUsers[userIndex], "applications")
               THEN \* undefined.filter(...): a TypeError after the applications key was written
                    /\ lastCall' = Call("deleteApplication", <<userId, applicationId>>,
                                        failing \cap {"visa_applications"})
                    /\ lastResult' = Threw("TypeError")
                    /\ UNCHANGED <<visa_users, visa_current_user>>
               ELSE LET users == [getUsers EXCEPT ![userIndex] =
                                     Spread(@, [applications |->
                                        SelectSeq(@.applications,
                                                  LAMBDA e : KeepSummary(e, applicationId))])]
                    IN  /\ lastCall' = Call("deleteApplication", <<userId, applicationId>>, failing)
                        /\ visa_users' = Set("visa_users", visa_users, users, failing)
                        /\ visa_current_user' = Set("visa_current_user", visa_current_user,
                                                    Some(SessionUser(users[userIndex])), failing)
                        /\ lastResult' = Success([message |-> "Application deleted successfully"])

deleteApplication(userId, applicationId) == deleteApplicationUnder(userId, applicationId, {})

\* the assignments with approvedAt stamped whatever the status
StatusUpdatedApplication_alwaysStamps(app, status, adminNotes, t) ==
    Spread(app, [status |-> status, adminNotes |-> adminNotes, updatedAt |-> t, approvedAt |-> t])

\* the assignments updateApplicationStatus makes to applications[appIndex]
StatusUpdatedApplication(app, status, adminNotes, t) ==
    LET a == Spread(app, [status |-> status, adminNotes |-> adminNotes, updatedAt |-> t])
    IN  IF status = "approved" THEN Spread(a, [approvedAt |-> t]) ELSE a

\* a status update that also drops the session
updateApplicationStatus_dropsSession(applicationId, status, adminNotes) ==
    /\ impl = "storage" /\ UNCHANGED <<impl, guideVars, tabs, exported>>
    /\ lastCall' = [op |-> "updateApplicationStatus", args |-> <<applicationId, status, adminNotes>>]
    /\ lastResult' = Failure("Application not found")
    /\ visa_current_user' = Null
    /\ UNCHANGED <<visa_users, visa_applications, usrCount, appCount>>

updateApplicationStatus(applicationId, status, adminNotes) ==
    /\ impl = "storage" /\ UNCHANGED <<impl, guideVars, tabs, exported>>
    /\ lastCall' = [op |-> "updateApplicationStatus", args |-> <<applicationId, status, adminNotes>>]
    /\ LET appIndex == FindIndex(getApplications, LAMBDA app : app.id = applicationId) IN
       IF appIndex = 0
       THEN /\ lastResult' = Failure("Application not found")
            /\ UNCHANGED storageVars
       ELSE \E t \in Timestamps :
              LET applications == [getApplications EXCEPT
                                     ![appIndex] = StatusUpdatedApplication(@, status, adminNotes, t)]
              IN  /\ visa_applications' = applications
                  /\ lastResult' = Success([application |-> applications[appIndex]])
                  /\ UNCHANGED <<visa_users, visa_current_user, usrCount, appCount>>

getUserApplicationStats(userId) ==
    LET applications == getUserApplications(userId)
        Count(st) == Len(SelectSeq(applications, LAMBDA a : a.status = st))
    IN  [ total |-> Len(applications),
          pending |-> Count("pending"),
          approved |-> Count("approved"),
          rejected |-> Count("rejected"),
          draft |-> Count("draft") ]

\* clearAll: the three keys are removed
clearAll ==
    /\ impl = "storage" /\ UNCHANGED <<impl, guideVars, tabs, exported>>
    /\ lastCall' = [op |-> "clearAll", args |-> <<>>]
    /\ lastResult' = Null
    /\ visa_users' = <<>>
    /\ visa_current_user' = Null
    /\ visa_applications' = <<>>
    /\ UNCHANGED <<usrCount, appCount>>

\* the user object of the export: id, name, email, createdAt and profile of the
\* stored user; a property whose value is undefined is not kept
ExportedUser(user) == [k \in {"id", "name", "email", "createdAt", "profile"} \cap DOMAIN user |-> user[k]]

\* exportUserData: null for an unknown user, else the export object, which the
\* caller keeps
exportUserData(userId) ==
    /\ impl = "storage" /\ UNCHANGED <<impl, guideVars, tabs>>
    /\ lastCall' = [op |-> "exportUserData", args |-> <<userId>>]
    /\ IF findUserById(userId) = Null
       THEN lastResult' = Null /\ UNCHANGED exported
       ELSE \E t \in Timestamps :
              LET data == [ exportDate |-> t,
                            user |-> ExportedUser(findUserById(userId)[1]),
                            applications |-> getUserApplications(userId) ]
              IN  lastResult' = data /\ exported' = data
    /\ UNCHANGED storageVars

importUserData(data) ==
    /\ impl = "storage" /\ UNCHANGED <<impl, guideVars, tabs, exported>>
    /\ lastCall' = [op |-> "importUserData", args |-> <<data>>]
    /\ IF ~Has(data, "user") \/ Falsy(data.user, "email")
       THEN /\ lastResult' = Failure("Invalid data format")
            /\ UNCHANGED storageVars
       ELSE IF findUserByEmail(data.user.email) # Null
       THEN /\ lastResult' = Failure("User already exists. Please login to import data.")
            /\ UNCHANGED storageVars
       ELSE /\ Len(visa_users) < MaxUsers
            /\ visa_users' = Append(getUsers, data.user)
            /\ visa_applications' = IF Has(data, "applications")
                                    THEN getApplications \o data.applications
                                    ELSE getApplications
            /\ lastResult' = Success([message |-> "Data imported successfully"])
            /\ UNCHANGED <<visa_current_user, usrCount, appCount>>

-----------------------------------------------------------------------------
(* src/unnamed/part_000, second module: the Storage object of the guide pages *)

ChatHistoryLimit == 100

GuideId(n) == <<"", n>>

\* charCodeAt for the characters the model's passwords use
CharCode(c) ==
    CASE c = "A" -> 65 [] c = "B" -> 66 [] c = "a" -> 97 [] c = "b" -> 98
      [] c = "p" -> 112 [] c = "q" -> 113 [] c = " " -> 32 [] OTHER -> 63

HexDigit(d) == SubSeq(<<"0","1","2","3","4","5","6","7","8","9","a","b","c","d","e","f">>, d + 1, d + 1)

\* Number.prototype.toString(16) of a non-negative integer
RECURSIVE ToHex(_)
ToHex(n) == IF n < 16 THEN HexDigit(n) ELSE ToHex(n \div 16) \o HexDigit(n % 16)

\* the four hex digits of a 16-bit half word
Hex4(n) == HexDigit(n \div 4096) \o HexDigit((n \div 256) % 16) \o HexDigit((n \div 16) % 16) \o HexDigit(n % 16)

\* A 32-bit hash is kept as its two 16-bit halves <<hi, lo>> (the bit pattern of
\* the int32).  hash = ((hash << 5) - hash) + char; hash = hash & hash
\* leaves the bit pattern of 31 * hash + char modulo 2^32.
HashStep(h, char) ==
    LET lo == h[2] * 31 + char
        hi == h[1] * 31 + (lo \div 65536)
    IN  <<hi % 65536, lo % 65536>>

\* the loop of hashPassword over the rest of the password
RECURSIVE HashFrom(_, _)
HashFrom(hash, rest) ==
    IF rest = <<>> THEN hash ELSE HashFrom(HashStep(hash, CharCode(Head(rest))), Tail(rest))

\* Math.abs of the int32 with bit pattern h, as halves
AbsHalves(h) ==
    IF h[1] < 32768 THEN h
    ELSE <<(65535 - h[1]) + (IF h[2] = 0 THEN 1 ELSE 0), (65536 - h[2]) % 65536>>

\* 'hash_' + Math.abs(hash).toString(16)
HashString(h) ==
    LET a == AbsHalves(h)
    IN  <<"h", "a", "s", "h", "_">> \o (IF a[1] = 0 THEN ToHex(a[2]) ELSE ToHex(a[1]) \o Hex4(a[2]))

hashPassword(password) == HashString(HashFrom(<<0, 0>>, password))

verifyPassword(password, hash) == hashPassword(password) = hash

guide_getUsers == visa_guide_users

guide_findUserByEmail(email) ==
    LET i == FindIndex(guide_getUsers, LAMBDA u : ToLowerCase(u.email) = ToLowerCase(email))
    IN  IF i = 0 THEN Null ELSE Some(guide_getUsers[i])

guide_findUserById(userId) ==
    LET i == FindIndex(guide_getUsers, LAMBDA u : u.id = userId)
    IN  IF i = 0 THEN Null ELSE Some(guide_getUsers[i])

guide_getCurrentUser == visa_guide_current_user

\* a write that lands under every user's key of the prefix
SetItem_sharedKey(store, userId, value) ==
    [u \in (DOMAIN store) \cup {userId} |-> value]

\* localStorage.setItem(prefix + userId, value) on the per-user keys of one prefix
SetItem(store, userId, value) ==
    [u \in (DOMAIN store) \cup {userId} |-> IF u = userId THEN value ELSE store[u]]

InitialUserData(t) ==
    [ profile |-> EmptyObject,
      settings |-> [theme |-> "light", language |-> "en", notifications |-> TRUE, speechEnabled |-> TRUE],
      progress |-> [overallPercentage |-> 0, currentStep |-> 0, completedSteps |-> <<>>],
      createdAt |-> t,
      lastUpdated |-> t ]

InitialCivicsProgress ==
    [ questionsAnswered |-> 0, correctAnswers |-> 0, missedQuestions |-> <<>>,
      completedFlashcards |-> <<>>, practiceSessions |-> 0 ]

initializeUserData(userId, t) ==
    /\ visa_guide_user_data' = SetItem(visa_guide_user_data, userId, InitialUserData(t))
    /\ visa_guide_documents' = SetItem(visa_guide_documents, userId, <<>>)
    /\ visa_guide_forms' = SetItem(visa_guide_forms, userId, EmptyObject)
    /\ visa_guide_chat_history' = SetItem(visa_guide_chat_history, userId, <<>>)
    /\ visa_guide_civics_progress' = SetItem(visa_guide_civics_progress, userId, InitialCivicsProgress)
    /\ UNCHANGED spliced

\* the newUser object literal of part_000's registerUser
guide_NewUser(id, email, password, fullName, t) ==
    [ id |-> id,
      email |-> Trim(ToLowerCase(email)),
      password |-> hashPassword(password),
      fullName |-> Trim(fullName),
      createdAt |-> t ]

\* { id: user.id, email: user.email, fullName: user.fullName }
PublicUser(user) == [id |-> user.id, email |-> user.email, fullName |-> user.fullName]

guide_registerUser(email, password, fullName) ==
    /\ impl = "guide" /\ UNCHANGED <<impl, storageVars, tabs, exported>>
    /\ lastCall' = [op |-> "registerUser", args |-> <<email, password, fullName>>]
    /\ IF guide_findUserByEmail(email) # Null
       THEN /\ lastResult' = Failure("An account with this email already exists")
            /\ UNCHANGED guideVars
       ELSE /\ Len(visa_guide_users) < MaxUsers
            /\ \E t \in Timestamps :
                 LET newUser == guide_NewUser(GuideId(guideCount + 1), email, password, fullName, t) IN
                 /\ guideCount' = guideCount + 1
                 /\ visa_guide_users' = Append(guide_getUsers, newUser)
                 /\ initializeUserData(newUser.id, t)
                 /\ lastResult' = Success([user |-> PublicUser(newUser)])
            /\ UNCHANGED visa_guide_current_user

guide_loginUser(email, password) ==
    /\ impl = "guide" /\ UNCHANGED <<impl, storageVars, tabs, exported>>
    /\ lastCall' = [op |-> "loginUser", args |-> <<email, password>>]
    /\ LET user == guide_findUserByEmail(email) IN
       IF user = Null
       THEN /\ lastResult' = Failure("No account found with this email")
            /\ UNCHANGED guideVars
       ELSE IF ~verifyPassword(password, user[1].password)
       THEN /\ lastResult' = Failure("Incorrect password")
            /\ UNCHANGED guideVars
       ELSE /\ visa_guide_current_user' = Some(PublicUser(user[1]))
            /\ lastResult' = Success([user |-> PublicUser(user[1])])
            /\ UNCHANGED <<visa_guide_users, guideCount, guideDataVars>>

\* what loginUser returns when the users key holds `users` (the caller is
\* Auth.login, also right after Auth.register has stored a user)
guide_loginResult(users, email, password) ==
    LET i == FindIndex(users, LAMBDA u : ToLowerCase(u.email) = ToLowerCase(email))
    IN  IF i = 0 THEN Failure("No account found with this email")
        ELSE IF ~verifyPassword(password, users[i].password) THEN Failure("Incorrect password")
        ELSE Success([user |-> PublicUser(users[i])])

\* returns undefined
guide_logoutUser ==
    /\ impl = "guide" /\ UNCHANGED <<impl, storageVars, tabs, exported>>
    /\ lastCall' = [op |-> "logoutUser", args |-> <<>>]
    /\ visa_guide_current_user' = Null
    /\ lastResult' = Null
    /\ UNCHANGED <<visa_guide_users, guideCount, guideDataVars>>

getUserData(userId) ==
    IF userId \in DOMAIN visa_guide_user_data THEN Some(visa_guide_user_data[userId]) ELSE Null

updateUserData(userId, updates) ==
    /\ impl = "guide" /\ UNCHANGED <<impl, storageVars, tabs, exported>>
    /\ lastCall' = [op |-> "updateUserData", args |-> <<userId, updates>>]
    /\ \E t \in Timestamps :
         LET currentData == IF getUserData(userId) = Null THEN EmptyObject ELSE getUserData(userId)[1]
             updatedData == Spread(Spread(currentData, updates), [lastUpdated |-> t])
         IN  /\ visa_guide_user_data' = SetItem(visa_guide_user_data, userId, updatedData)
             /\ lastResult' = updatedData
    /\ UNCHANGED <<guideUserVars, visa_guide_documents, visa_guide_forms, visa_guide_chat_history,
                   visa_guide_civics_progress, spliced>>

getDocuments(userId) ==
    IF userId \in DOMAIN visa_guide_documents THEN visa_guide_documents[userId] ELSE <<>>

\* the newDocument object literal of addDocument
NewDocument(id, document, t) ==
    Spread([k \in {"name", "type", "size"} \cap DOMAIN document |-> document[k]],
           [id |-> id, uploadDate |-> t,
            category |-> IF Has(document, "category") /\ document.category # ""
                         THEN document.category ELSE "other"])

addDocument(userId, document) ==
    /\ impl = "guide" /\ UNCHANGED <<impl, storageVars, tabs, exported>>
    /\ lastCall' = [op |-> "addDocument", args |-> <<userId, document>>]
    /\ \E t \in Timestamps :
         LET newDocument == NewDocument(GuideId(guideCount + 1), document, t) IN
         /\ guideCount' = guideCount + 1
         /\ visa_guide_documents' = SetItem(visa_guide_documents, userId,
                                            Append(getDocuments(userId), newDocument))
         /\ lastResult' = newDocument
    /\ UNCHANGED <<visa_guide_users, visa_guide_current_user, visa_guide_user_data, visa_guide_forms,
                   visa_guide_chat_history, visa_guide_civics_progress, spliced>>

deleteDocument(userId, documentId) ==
    /\ impl = "guide" /\ UNCHANGED <<impl, storageVars, tabs, exported>>
    /\ lastCall' = [op |-> "deleteDocument", args |-> <<userId, documentId>>]
    /\ visa_guide_documents' = SetItem(visa_guide_documents, userId,
                                       SelectSeq(getDocuments(userId), LAMBDA d : d.id # documentId))
    /\ lastResult' = Null
    /\ UNCHANGED <<guideUserVars, visa_guide_user_data, visa_guide_forms, visa_guide_chat_history,
                   visa_guide_civics_progress, spliced>>

getAllForms(userId) ==
    IF userId \in DOMAIN visa_guide_forms THEN visa_guide_forms[userId] ELSE EmptyObject

\* allForms[formType] || null
getFormData(userId, formType) ==
    IF Has(getAllForms(userId), formType) THEN Some(getAllForms(userId)[formType]) ELSE Null

saveFormData(userId, formType, data) ==
    /\ impl = "guide" /\ UNCHANGED <<impl, storageVars, tabs, exported>>
    /\ lastCall' = [op |-> "saveFormData", args |-> <<userId, formType, data>>]
    /\ \E t \in Timestamps :
         visa_guide_forms' = SetItem(visa_guide_forms, userId,
                                     Spread(getAllForms(userId),
                                            [k \in {formType} |-> [data |-> data, updatedAt |-> t]]))
    /\ lastResult' = Null
    /\ UNCHANGED <<guideUserVars, visa_guide_user_data, visa_guide_documents, visa_guide_chat_history,
                   visa_guide_civics_progress, spliced>>

getCivicsProgress(userId) ==
    IF userId \in DOMAIN visa_guide_civics_progress
    THEN visa_guide_civics_progress[userId] ELSE InitialCivicsProgress

updateCivicsProgress(userId, updates) ==
    /\ impl = "guide" /\ UNCHANGED <<impl, storageVars, tabs, exported>>
    /\ lastCall' = [op |-> "updateCivicsProgress", args |-> <<userId, updates>>]
    /\ LET updatedProgress == Spread(getCivicsProgress(userId), updates) IN
       /\ visa_guide_civics_progress' = SetItem(visa_guide_civics_progress, userId, updatedProgress)
       /\ lastResult' = updatedProgress
    /\ UNCHANGED <<guideUserVars, visa_guide_user_data, visa_guide_documents, visa_guide_forms,
                   visa_guide_chat_history, spliced>>

getChatHistory(userId) ==
    IF userId \in DOMAIN visa_guide_chat_history THEN visa_guide_chat_history[userId] ELSE <<>>

\* the guard off by one
SpliceCount_offByOne(history) ==
    IF Len(history) > ChatHistoryLimit + 1 THEN Len(history) - ChatHistoryLimit ELSE 0

\* the deleteCount of history.splice(0, history.length - 100), 0 when the
\* guard history.length > 100 is false
SpliceCount(history) ==
    IF Len(history) > ChatHistoryLimit THEN Len(history) - ChatHistoryLimit ELSE 0

\* a splice that drops from the end
KeepLast_dropsNewest(history) == SubSeq(history, 1, Len(history) - SpliceCount(history))

\* history after the guarded splice
KeepLast(history) == SubSeq(history, SpliceCount(history) + 1, Len(history))

\* the entry addChatMessage pushes
ChatEntry(message, t) ==
    Spread([k \in {"role", "content"} \cap DOMAIN message |-> message[k]], [timestamp |-> t])

addChatMessage(userId, message) ==
    /\ impl = "guide" /\ UNCHANGED <<impl, storageVars, tabs, exported>>
    /\ lastCall' = [op |-> "addChatMessage", args |-> <<userId, message>>]
    /\ \E t \in Timestamps :
         LET history == Append(getChatHistory(userId), ChatEntry(message, t)) IN
         /\ visa_guide_chat_history' = SetItem(visa_guide_chat_history, userId, KeepLast(history))
         /\ spliced' = SpliceCount(history)
    /\ lastResult' = Null
    /\ UNCHANGED <<guideUserVars, visa_guide_user_data, visa_guide_documents, visa_guide_forms,
                   visa_guide_civics_progress>>

clearChatHistory(userId) ==
    /\ impl = "guide" /\ UNCHANGED <<impl, storageVars, tabs, exported>>
    /\ lastCall' = [op |-> "clearChatHistory", args |-> <<userId>>]
    /\ visa_guide_chat_history' = SetItem(visa_guide_chat_history, userId, <<>>)
    /\ lastResult' = Null
    /\ UNCHANGED <<guideUserVars, visa_guide_user_data, visa_guide_documents, visa_guide_forms,
                   visa_guide_civics_progress, spliced>>

\* the effect of clearAllData when the users key holds `users`: with a session
\* only the session key is removed, with none every key prefixed visa_guide_
\* a clearAllData that only ever removes the session key
clearAllDataFrom_sessionOnly(users) ==
    /\ visa_guide_current_user' = Null
    /\ visa_guide_users' = users
    /\ UNCHANGED <<guideCount, guideDataVars>>

clearAllDataFrom(users) ==
    IF guide_getCurrentUser # Null
    THEN /\ visa_guide_current_user' = Null
         /\ visa_guide_users' = users
         /\ UNCHANGED <<guideCount, guideDataVars>>
    ELSE /\ visa_guide_current_user' = Null
         /\ visa_guide_users' = <<>>
         /\ visa_guide_user_data' = EmptyObject
         /\ visa_guide_documents' = EmptyObject
         /\ visa_guide_forms' = EmptyObject
         /\ visa_guide_chat_history' = EmptyObject
         /\ visa_guide_civics_progress' = EmptyObject
         /\ UNCHANGED <<guideCount, spliced>>

clearAllData ==
    /\ impl = "guide" /\ UNCHANGED <<impl, storageVars, tabs, exported>>
    /\ lastCall' = [op |-> "clearAllData", args |-> <<>>]
    /\ lastResult' = Null
    /\ clearAllDataFrom(guide_getUsers)

-----------------------------------------------------------------------------
(* src/js/auth.js: the Auth object, a caller of part_000's Storage *)

MinPasswordLength == 6

\* /^[^\s@]+@[^\s@]+\.[^\s@]+$/.test(email): one '@' with a non-empty local
\* part before it, no whitespace anywhere, and after it a '.' with at least one
\* character on either side
EmailRegexTest(email) ==
    \E at, dot \in 1..Len(email) :
        /\ email[at] = "@" /\ email[dot] = "."
        /\ 1 < at /\ at + 1 < dot /\ dot < Len(email)
        /\ \A i \in (1..Len(email)) \ {at} : ~IsSpace(email[i]) /\ email[i] # "@"

\* the session write of a loginUser that returned `result`
SessionAfterLogin(result) ==
    IF result.success THEN Some(result.user) ELSE guide_getCurrentUser

Auth_login(email, password) ==
    /\ impl = "guide" /\ UNCHANGED <<impl, storageVars, tabs, exported>>
    /\ lastCall' = [op |-> "Auth.login", args |-> <<email, password>>]
    /\ IF email = <<>> \/ password = <<>>
       THEN /\ lastResult' = Failure("Please enter both email and password")
            /\ UNCHANGED guideVars
       ELSE IF ~EmailRegexTest(email)
       THEN /\ lastResult' = Failure("Please enter a valid email address")
            /\ UNCHANGED guideVars
       ELSE LET result == guide_loginResult(guide_getUsers, email, password) IN
            /\ lastResult' = result
            /\ visa_guide_current_user' = SessionAfterLogin(result)
            /\ UNCHANGED <<visa_guide_users, guideCount, guideDataVars>>

\* a validation that lets empty fields through
RequiredMissing_never(email, password, confirmPassword, fullName) == FALSE

\* !email || !password || !confirmPassword || !fullName
RequiredMissing(email, password, confirmPassword, fullName) ==
    email = <<>> \/ password = <<>> \/ confirmPassword = <<>> \/ fullName = <<>>

Auth_register(email, password, confirmPassword, fullName) ==
    /\ impl = "guide" /\ UNCHANGED <<impl, storageVars, tabs, exported>>
    /\ lastCall' = [op |-> "Auth.register", args |-> <<email, password, confirmPassword, fullName>>]
    /\ IF RequiredMissing(email, password, confirmPassword, fullName)
       THEN /\ lastResult' = Failure("Please fill in all required fields")
            /\ UNCHANGED guideVars
       ELSE IF ~EmailRegexTest(email)
       THEN /\ lastResult' = Failure("Please enter a valid email address")
            /\ UNCHANGED guideVars
       ELSE IF Len(password) < MinPasswordLength
       THEN /\ lastResult' = Failure("Password must be at least 6 characters")
            /\ UNCHANGED guideVars
       ELSE IF password # confirmPassword
       THEN /\ lastResult' = Failure("Passwords do not match")
            /\ UNCHANGED guideVars
       ELSE IF guide_findUserByEmail(email) # Null
       THEN \* Storage.registerUser refused: its result is returned
            /\ lastResult' = Failure("An account with this email already exists")
            /\ UNCHANGED guideVars
       ELSE \* Storage.registerUser stored the user; the result is this.login's
            /\ Len(visa_guide_users) < MaxUsers /\ guideCount < MaxGuideIds
            /\ \E t \in Timestamps :
                 LET newUser == guide_NewUser(GuideId(guideCount + 1), email, password, fullName, t)
                     users == Append(guide_getUsers, newUser)
                     result == IF ~EmailRegexTest(email)
                               THEN Failure("Please enter a valid email address")
                               ELSE guide_loginResult(users, email, password)
                 IN  /\ guideCount' = guideCount + 1
                     /\ visa_guide_users' = users
                     /\ initializeUserData(newUser.id, t)
                     /\ lastResult' = result
                     /\ visa_guide_current_user' = SessionAfterLogin(result)

\* Storage.logoutUser(), then the navigation to index.html
Auth_logout ==
    /\ impl = "guide" /\ UNCHANGED <<impl, storageVars, tabs, exported>>
    /\ lastCall' = [op |-> "Auth.logout", args |-> <<>>]
    /\ visa_guide_current_user' = Null
    /\ lastResult' = Null
    /\ UNCHANGED <<visa_guide_users, guideCount, guideDataVars>>

Auth_changePassword(currentPassword, newPassword, confirmPassword) ==
    /\ impl = "guide" /\ UNCHANGED <<impl, storageVars, tabs, exported>>
    /\ lastCall' = [op |-> "Auth.changePassword", args |-> <<currentPassword, newPassword, confirmPassword>>]
    /\ LET user == guide_getCurrentUser IN
       IF user = Null
       THEN /\ lastResult' = Failure("Not logged in")
            /\ UNCHANGED guideVars
       ELSE IF newPassword # confirmPassword
       THEN /\ lastResult' = Failure("New passwords do not match")
            /\ UNCHANGED guideVars
       ELSE IF Len(newPassword) < MinPasswordLength
       THEN /\ lastResult' = Failure("Password must be at least 6 characters")
            /\ UNCHANGED guideVars
       ELSE LET userData == guide_findUserByEmail(user[1].email)
                userIndex == FindIndex(guide_getUsers, LAMBDA u : u.id = user[1].id)
            IN
            IF userData = Null
            THEN \* userData.password of undefined
                 /\ lastResult' = Threw("TypeError")
                 /\ UNCHANGED guideVars
            ELSE IF ~verifyPassword(currentPassword, userData[1].password)
            THEN /\ lastResult' = Failure("Current password is incorrect")
                 /\ UNCHANGED guideVars
            ELSE IF userIndex # 0
            THEN /\ visa_guide_users' = [guide_getUsers EXCEPT ![userIndex] =
                                            Spread(@, [password |-> hashPassword(newPassword)])]
                 /\ lastResult' = Success([message |-> "Password updated successfully"])
                 /\ UNCHANGED <<visa_guide_current_user, guideCount, guideDataVars>>
            ELSE /\ lastResult' = Failure("User not found")
                 /\ UNCHANGED guideVars

\* a filter that keeps nobody
FilteredUsers_nobody(users, userId) == <<>>

\* users.filter(u => u.id !== user.id)
FilteredUsers(users, userId) == SelectSeq(users, LAMBDA u : u.id # userId)

Auth_deleteAccount(password) ==
    /\ impl = "guide" /\ UNCHANGED <<impl, storageVars, tabs, exported>>
    /\ lastCall' = [op |-> "Auth.deleteAccount", args |-> <<password>>]
    /\ LET user == guide_getCurrentUser IN
       IF user = Null
       THEN /\ lastResult' = Failure("Not logged in")
            /\ UNCHANGED guideVars
       ELSE LET userData == guide_findUserByEmail(user[1].email) IN
            IF userData = Null
            THEN \* userData.password of undefined
                 /\ lastResult' = Threw("TypeError")
                 /\ UNCHANGED guideVars
            ELSE IF ~verifyPassword(password, userData[1].password)
            THEN /\ lastResult' = Failure("Password is incorrect")
                 /\ UNCHANGED guideVars
            ELSE /\ clearAllDataFrom(FilteredUsers(guide_getUsers, user[1].id))
                 /\ lastResult' = Success([message |-> "Account deleted successfully"])

-----------------------------------------------------------------------------
(* The specifications *)

InitStore ==
    /\ tabs = [tab \in Tabs |-> IdleTab]
    /\ exported = Null
    /\ visa_users = <<>>
    /\ visa_current_user = Null
    /\ visa_applications = <<>>
    /\ usrCount = 0
    /\ appCount = 0
    /\ visa_guide_users = <<>>
    /\ visa_guide_current_user = Null
    /\ visa_guide_user_data = EmptyObject
    /\ visa_guide_documents = EmptyObject
    /\ visa_guide_forms = EmptyObject
    /\ visa_guide_chat_history = EmptyObject
    /\ visa_guide_civics_progress = EmptyObject
    /\ guideCount = 0
    /\ spliced = 0
    /\ lastCall = [op |-> "load", args |-> <<>>]
    /\ lastResult = Null

Init == impl = "storage" /\ InitStore

\* Spec: the application registry of storage.js, with the registrations that
\* create its users
Next ==
    \/ \E userData \in UserDatas({<<"a">>, <<"b">>}) : registerUser(userData)
    \/ \E userId \in UserIds, applicationData \in ApplicationDatas : addApplication(userId, applicationData)
    \/ \E userId \in UserIds, applicationId \in ApplicationIds, applicationData \in UpdateDatas :
          updateApplication(userId, applicationId, applicationData)
    \/ \E userId \in UserIds, applicationId \in ApplicationIds : deleteApplication(userId, applicationId)
    \/ \E applicationId \in ApplicationIds, status \in Statuses :
          updateApplicationStatus(applicationId, status, <<>>)

Spec == Init /\ [][Next]_vars

\* SpecSession: the user registry of storage.js and the operations that write
\* the session
NextSession ==
    \/ \E userData \in UserDatas({<<"a">>, <<"b">>}) : registerUser(userData)
    \/ \E email \in PlainEmails, password \in Passwords : loginUser(email, password)
    \/ logoutUser
    \/ \E userId \in UserIds, profileData \in ProfileDatas : updateUserProfile(userId, profileData)
    \/ \E userId \in UserIds : updateUserPassword(userId, <<"q">>)
    \/ \E userId \in UserIds : addApplication(userId, [destination |-> "France", visaType |-> "tourist"])
    \/ \E userId \in UserIds, applicationId \in ApplicationIds : deleteApplication(userId, applicationId)

SpecSession == Init /\ [][NextSession]_vars

\* SpecAuth: registration, import and login of either implementation, with
\* emails in any letter case and with surrounding whitespace
InitAuth == impl \in {"storage", "guide"} /\ InitStore

GuidePasswords == {<<"p">>, <<"A", "a">>, <<"B", "B">>}

\* registration forms: those of UserDatas and one with another password
AuthUserDatas ==
    UserDatas(Emails) \cup {[name |-> <<"n">>, email |-> <<" ", "a">>, password |-> <<"q">>]}

NextAuth ==
    \/ \E userData \in AuthUserDatas : registerUser(userData)
    \/ \E email \in Emails, password \in Passwords \cup {<<>>} : loginUser(email, password)
    \/ logoutUser
    \/ \E data \in ImportDatas : importUserData(data)
    \/ \E email \in Emails \ {<<>>}, password \in {<<"p">>, <<"A", "a">>} :
          guide_registerUser(email, password, <<"n">>)
    \/ \E email \in Emails \ {<<>>}, password \in GuidePasswords : guide_loginUser(email, password)
    \/ guide_logoutUser

SpecAuth == InitAuth /\ [][NextAuth]_vars

\* SpecChat: the chat history of two users of the guide pages
InitChat == impl = "guide" /\ InitStore

ChatUserIds == {GuideId(1), GuideId(2)}

ChatMessages == {[role |-> "user", content |-> "hi"]}

NextChat ==
    \/ \E userId \in ChatUserIds, message \in ChatMessages : addChatMessage(userId, message)
    \/ \E userId \in ChatUserIds : clearChatHistory(userId)

SpecChat == InitChat /\ [][NextChat]_vars

\* SpecAccount: the account operations: storage.js's registry with password
\* updates, and Auth driving part_000's Storage
P6 == [i \in 1..MinPasswordLength |-> "p"]

Q6 == [i \in 1..MinPasswordLength |-> "q"]

E1 == <<"a", "@", "b", ".", "c">>

E2 == <<"b", "@", "b", ".", "c">>

\* registration forms <<email, password, confirmPassword, fullName>>: two valid
\* ones, one in capitals, and one for each check of Auth.register
RegisterForms ==
    { <<E1, P6, P6, <<"n">>>>, <<E2, Q6, Q6, <<"n">>>>,
      <<<<"A", "@", "b", ".", "c">>, P6, P6, <<"n">>>>,
      <<<<>>, P6, P6, <<"n">>>>, <<E1, <<>>, P6, <<"n">>>>, <<E1, P6, <<>>, <<"n">>>>,
      <<E1, P6, P6, <<>>>>,
      <<<<"a">>, P6, P6, <<"n">>>>, <<E1, <<"p">>, <<"p">>, <<"n">>>>, <<E1, P6, Q6, <<"n">>>> }

\* login forms <<email, password>>
LoginForms ==
    { <<E1, P6>>, <<E1, Q6>>, <<E2, Q6>>, <<<<>>, P6>>, <<E1, <<>>>>, <<<<"a">>, P6>> }

\* password-change forms <<currentPassword, newPassword, confirmPassword>>
ChangePasswordForms ==
    { <<P6, Q6, Q6>>, <<Q6, P6, P6>>, <<P6, Q6, P6>>, <<P6, <<"p">>, <<"p">>>> }

NextAccount ==
    \/ \E userData \in UserDatas({<<"a">>, <<"b">>}) : registerUser(userData)
    \/ \E email \in PlainEmails, password \in Passwords \cup {<<>>} : loginUser(email, password)
    \/ logoutUser
    \/ \E userId \in UserIds, newPassword \in {<<"q">>, <<>>} : updateUserPassword(userId, newPassword)
    \/ \E f \in RegisterForms : Auth_register(f[1], f[2], f[3], f[4])
    \/ \E f \in LoginForms : Auth_login(f[1], f[2])
    \/ Auth_logout
    \/ \E f \in ChangePasswordForms : Auth_changePassword(f[1], f[2], f[3])
    \/ \E password \in {P6, Q6} : Auth_deleteAccount(password)
    \/ clearAllData

SpecAccount == InitAuth /\ [][NextAccount]_vars

\* SpecAdmin: the administrative status path of storage.js over added and
\* imported applications
AdminStatuses == {"approved", "rejected", "pending"}

AdminNotes == {<<>>, <<"o", "k">>}

NextAdmin ==
    \/ \E userData \in UserDatas({<<"a">>}) : registerUser(userData)
    \/ \E data \in ImportDatas : importUserData(data)
    \/ \E userId \in UserIds,
          applicationData \in {[destination |-> "France", visaType |-> "tourist"], [id |-> AppId(1)]} :
          addApplication(userId, applicationData)
    \/ \E applicationId \in ApplicationIds, status \in AdminStatuses, adminNotes \in AdminNotes :
          updateApplicationStatus(applicationId, status, adminNotes)

SpecAdmin == Init /\ [][NextAdmin]_vars

\* SpecData: the per-user stores of part_000 used for two users; what a caller
\* writes for a user carries that user's id
DataUserIds == {GuideId(1), GuideId(2)}

DocumentOf(userId) == [name |-> userId, type |-> "pdf", size |-> 1]

FormTypes == {"n400"}

NextData ==
    \/ \E userId \in DataUserIds : updateUserData(userId, [profile |-> [owner |-> userId]])
    \/ \E userId \in DataUserIds :
          /\ Len(getDocuments(userId)) < MaxDataItems /\ guideCount < MaxDocIds
          /\ addDocument(userId, DocumentOf(userId))
    \/ \E userId \in DataUserIds, n \in 1..MaxDocIds : deleteDocument(userId, GuideId(n))
    \/ \E userId \in DataUserIds, formType \in FormTypes : saveFormData(userId, formType, userId)
    \/ \E userId \in DataUserIds :
          /\ Len(getChatHistory(userId)) < MaxDataItems
          /\ addChatMessage(userId, [role |-> "user", content |-> userId])
    \/ \E userId \in DataUserIds : clearChatHistory(userId)
    \/ \E userId \in DataUserIds : updateCivicsProgress(userId, [missedQuestions |-> <<userId>>])

SpecData == InitChat /\ [][NextData]_vars

\* SpecChatOrder: conversations whose messages are numbered in the order they
\* are sent, so that every entry of a history is told from every other
NextContent(userId) ==
    LET history == getChatHistory(userId)
    IN  IF history = <<>> THEN 1 ELSE history[Len(history)].content + 1

NextChatOrder ==
    \/ \E userId \in ChatUserIds :
          /\ NextContent(userId) <= MaxChatSeq
          /\ addChatMessage(userId, [role |-> "user", content |-> NextContent(userId)])
    \/ \E userId \in ChatUserIds : clearChatHistory(userId)

SpecChatOrder == InitChat /\ [][NextChatOrder]_vars

\* SpecTabs: two tabs on one localStorage, each running addApplication, their
\* accesses to the keys interleaved
NextTabs ==
    \/ \E userData \in UserDatas({<<"a">>}) : registerUser(userData)
    \/ \E tab \in Tabs, userId \in UserIds :
          addApplication_findUserById(tab, userId, [destination |-> "France", visaType |-> "tourist"])
    \/ \E tab \in Tabs : addApplication_getApplications(tab)
    \/ \E tab \in Tabs : addApplication_setApplications(tab)
    \/ \E tab \in Tabs : addApplication_getUsers(tab)
    \/ \E tab \in Tabs : addApplication_saveUsers(tab)
    \/ \E tab \in Tabs : addApplication_setCurrentUser(tab)

SpecTabs == Init /\ [][NextTabs]_vars

\* SpecRoundTrip: registration, logout and login with emails typed with
\* surrounding whitespace or in upper case; no two of the emails have the same
\* trimmed lower-case form, so a stored email tells which one was typed
RoundTripEmails == {<<" ", "a">>, <<"B">>}

NextRoundTrip ==
    \/ \E email \in RoundTripEmails, password \in Passwords :
          registerUser([name |-> <<"n">>, email |-> email, password |-> password])
    \/ logoutUser
    \/ \E email \in RoundTripEmails, password \in Passwords : loginUser(email, password)

SpecRoundTrip == Init /\ [][NextRoundTrip]_vars

\* SpecEdit: applications edited with any fields, id and userId included
NextEdit ==
    \/ \E email \in {<<"a">>, <<"b">>} :
          registerUser([name |-> <<"n">>, email |-> email, password |-> <<"p">>])
    \/ \E userId \in UserIds : addApplication(userId, [destination |-> "France", visaType |-> "tourist"])
    \/ \E userId \in UserIds, applicationId \in ApplicationIds,
          applicationData \in {[visaType |-> "work"], [userId |-> UsrId(2)], [id |-> AppId(2)]} :
          updateApplication(userId, applicationId, applicationData)

SpecEdit == Init /\ [][NextEdit]_vars

\* SpecBackup: applications added, a user exported, the store cleared, and the
\* export (or other data) imported
NextBackup ==
    \/ \E email \in {<<"a">>, <<"b">>} :
          registerUser([name |-> <<"n">>, email |-> email, password |-> <<"p">>])
    \/ \E userId \in UserIds : addApplication(userId, [destination |-> "France", visaType |-> "tourist"])
    \/ \E userId \in UserIds : exportUserData(userId)
    \/ clearAll
    \/ \E data \in ImportDatas \cup {exported} : importUserData(data)

SpecBackup == Init /\ [][NextBackup]_vars

\* SpecRegistry: every registry operation of storage.js over registered and
\* imported users, with statuses inside and outside the enumeration
NextRegistry ==
    \/ \E userData \in UserDatas({<<"a">>}) : registerUser(userData)
    \/ \E data \in ImportDatas : importUserData(data)
    \/ \E email \in {<<"a">>, <<"A">>} : loginUser(email, <<"p">>)
    \/ logoutUser
    \/ \E userId \in UserIds : updateUserProfile(userId, EmptyObject)
    \/ \E userId \in UserIds : updateUserPassword(userId, <<"q">>)
    \/ \E userId \in UserIds,
          applicationData \in {[destination |-> "France", visaType |-> "tourist"], [status |-> "archived"]} :
          addApplication(userId, applicationData)
    \/ \E userId \in UserIds, applicationId \in ApplicationIds :
          updateApplication(userId, applicationId, [status |-> "archived"])
    \/ \E userId \in UserIds, applicationId \in ApplicationIds : deleteApplication(userId, applicationId)
    \/ \E applicationId \in ApplicationIds, status \in {"approved", "archived"} :
          updateApplicationStatus(applicationId, status, <<>>)

SpecRegistry == Init /\ [][NextRegistry]_vars

\* SpecQuota: the writing operations of storage.js while setItem may throw for
\* any of the three keys
QuotaUserDatas == {[name |-> <<"n">>, email |-> <<"a">>, password |-> <<"p">>]}

\* the sets of keys for which setItem throws during one call: none, one key, all
FailingSets == {{}, {"visa_users"}, {"visa_applications"}, {"visa_current_user"}, StorageKeys}

NextQuota ==
    \/ \E userData \in QuotaUserDatas, failing \in FailingSets :
          registerUserUnder(userData, failing)
    \/ \E userId \in UserIds, failing \in FailingSets :
          addApplicationUnder(userId, [destination |-> "France", visaType |-> "tourist"], failing)
    \/ \E userId \in UserIds, applicationId \in ApplicationIds, failing \in FailingSets :
          deleteApplicationUnder(userId, applicationId, failing)
    \/ \E userId \in UserIds, applicationId \in ApplicationIds, failing \in FailingSets :
          updateApplicationUnder(userId, applicationId, [visaType |-> "work"], failing)
    \/ \E userId \in UserIds, failing \in FailingSets :
          updateUserProfileUnder(userId, [phone |-> <<"5">>], failing)

SpecQuota == Init /\ [][NextQuota]_vars

-----------------------------------------------------------------------------
(* Properties *)

\* the users collection and the session of the implementation in use
StoredUsers == IF impl = "storage" THEN visa_users ELSE visa_guide_users

CurrentSession == IF impl = "storage" THEN visa_current_user ELSE visa_guide_current_user

\* the indices of the stored users whose email equals e when letter case is ignored
SameEmail(users, e) == {i \in 1..Len(users) : ToLowerCase(users[i].email) = ToLowerCase(e)}

\* the email argument of a registerUser call
RegisterEmail(call) == IF impl = "storage" THEN call.args[1].email ELSE call.args[1]

\* the registerUser call leaves no required field empty
RegisterComplete(call) ==
    impl = "storage" =>
        ~(Falsy(call.args[1], "email") \/ Falsy(call.args[1], "password") \/ Falsy(call.args[1], "name"))

DuplicateMessage ==
    IF impl = "storage" THEN "This email is already registered"
    ELSE "An account with this email already exists"

IncorrectPasswordMessage ==
    IF impl = "storage" THEN "Incorrect password. Please try again." ELSE "Incorrect password"

EmbeddedSummary(user) == IF Has(user, "applications") THEN user.applications ELSE <<>>

\* id, destination, visaType and status of every entry of a list
SummaryView(list) ==
    [i \in 1..Len(list) |->
        [k \in {"id", "destination", "visaType", "status"} \cap DOMAIN list[i] |-> list[i][k]]]

\* C1: in every reachable state the stored CurrentSession, when present, has no
\* password field.
C1_SessionHasNoPassword ==
    visa_current_user # Null => ~Has(visa_current_user[1], "password")

\* C2: after any mutating call (addApplication, updateApplication,
\* deleteApplication, updateApplicationStatus, updateUserProfile) returns, every
\* user's embedded summary lists exactly that user's canonical applications with
\* the same id, destination, visaType and status, and the CurrentSession, when
\* present, is the canonical record of the same user without its password.
C2_CopiesReflectCanonical ==
    (/\ lastCall.op \in {"addApplication", "updateApplication", "deleteApplication",
                        "updateApplicationStatus", "updateUserProfile"}
     /\ lastResult.success)
    => /\ \A i \in 1..Len(visa_users) :
            SummaryView(EmbeddedSummary(visa_users[i]))
                = SummaryView(ApplicationsOf(visa_applications, visa_users[i].id))
       /\ visa_current_user # Null =>
            \E i \in 1..Len(visa_users) :
                /\ visa_users[i].id = visa_current_user[1].id
                /\ visa_current_user[1] = Delete(visa_users[i], "password")

\* C3: no two stored users have emails that are equal when letter case is
\* ignored, whatever email strings registerUser and importUserData were given.
C3_EmailsUniqueIgnoringCase ==
    \A i, j \in 1..Len(visa_users) :
        i # j => ToLowerCase(visa_users[i].email) # ToLowerCase(visa_users[j].email)

\* C4: a registerUser call whose email equals, letter case ignored, the email of
\* a stored user returns a failure (the duplicate-email one whenever no required
\* field is empty) and leaves the users collection, with the one user of that
\* email, and the CurrentSession as they were.
C4_DuplicateRegistrationRejected ==
    [][ (lastCall'.op = "registerUser" /\ SameEmail(StoredUsers, RegisterEmail(lastCall')) # {})
        => /\ lastResult'.success = FALSE
           /\ RegisterComplete(lastCall') => lastResult'.message = DuplicateMessage
           /\ visa_users' = visa_users /\ visa_guide_users' = visa_guide_users
           /\ visa_current_user' = visa_current_user
           /\ visa_guide_current_user' = visa_guide_current_user
           /\ Cardinality(SameEmail(StoredUsers, RegisterEmail(lastCall'))) = 1
                => Cardinality(SameEmail(StoredUsers', RegisterEmail(lastCall'))) = 1 ]_vars

\* a registration was refused for an email that differs from the stored one in
\* letter case, while a session was held
C4_Witness ==
    /\ lastCall.op = "registerUser"
    /\ lastResult = Failure(DuplicateMessage)
    /\ CurrentSession # Null
    /\ \E i \in SameEmail(StoredUsers, RegisterEmail(lastCall)) :
          StoredUsers[i].email # RegisterEmail(lastCall)

\* C5: whenever addApplication(userId, fields) returns success,
\* getUserApplications(userId) has exactly one more entry than before, the
\* owner's embedded summary has exactly one more entry, and the new summary
\* entry's id is the id of the new canonical application.
C5_AddGrowsBothByOne ==
    [][ (lastCall'.op = "addApplication" /\ lastResult'.success)
        => LET userId == lastCall'.args[1]
               userIndex == FindIndex(visa_users, LAMBDA u : u.id = userId)
               before == EmbeddedSummary(visa_users[userIndex])
               after == EmbeddedSummary(visa_users'[userIndex])
           IN  /\ Len(ApplicationsOf(visa_applications', userId))
                    = Len(ApplicationsOf(visa_applications, userId)) + 1
               /\ Len(after) = Len(before) + 1
               /\ after[Len(after)].id = visa_applications'[Len(visa_applications')].id ]_vars

\* C6: after deleteApplication(userId, applicationId) returns success, no
\* canonical application has id applicationId, and neither the owner's embedded
\* summary in the users collection nor the one in the CurrentSession has an
\* entry with that id.
C6_DeletedIdIsGone ==
    (lastCall.op = "deleteApplication" /\ lastResult = Success([message |-> "Application deleted successfully"]))
    => LET userId == lastCall.args[1]
           applicationId == lastCall.args[2]
       IN  /\ \A i \in 1..Len(visa_applications) : visa_applications[i].id # applicationId
           /\ \A i \in 1..Len(visa_users) :
                visa_users[i].id = userId =>
                    \A j \in 1..Len(EmbeddedSummary(visa_users[i])) :
                        EmbeddedSummary(visa_users[i])[j].id # applicationId
           /\ (visa_current_user # Null /\ visa_current_user[1].id = userId) =>
                    \A j \in 1..Len(EmbeddedSummary(visa_current_user[1])) :
                        EmbeddedSummary(visa_current_user[1])[j].id # applicationId

\* C7: loginUser with the email of a registered user and a password that does
\* not match the stored one returns a failure (the incorrect-password one
\* whenever a password was entered) and leaves the CurrentSession as it was.
C7_WrongPasswordLoginRejected ==
    [][ (/\ lastCall'.op = "loginUser"
         /\ LET email == lastCall'.args[1]
                password == lastCall'.args[2]
                found == SameEmail(StoredUsers, email)
                user == StoredUsers[CHOOSE i \in found : \A j \in found : i <= j]
            IN  /\ found # {}
                /\ IF impl = "storage"
                   THEN ~Has(user, "password") \/ user.password # password
                   ELSE hashPassword(password) # user.password)
        => /\ lastResult'.success = FALSE
           /\ lastCall'.args[2] # <<>> => lastResult'.message = IncorrectPasswordMessage
           /\ visa_current_user' = visa_current_user
           /\ visa_guide_current_user' = visa_guide_current_user ]_vars

\* a login was refused for its password while a session was held
C7_Witness ==
    /\ lastCall.op = "loginUser"
    /\ lastResult = Failure(IncorrectPasswordMessage)
    /\ CurrentSession # Null

\* C8: the stored chat history of every user has at most 100 entries.
C8_ChatHistoryBounded ==
    \A userId \in DOMAIN visa_guide_chat_history :
        Len(visa_guide_chat_history[userId]) <= ChatHistoryLimit

\* addChatMessage has just evicted the oldest entry of a full history
C8_Witness ==
    /\ lastCall.op = "addChatMessage"
    /\ spliced = 1
    /\ Len(visa_guide_chat_history[lastCall.args[1]]) = ChatHistoryLimit

\* C9: updateUserProfile, whatever profileData carries, leaves every user's
\* top-level email as it was, and the updated user's profile.email equal to the
\* email stored before the call.
C9_ProfileUpdateKeepsEmail ==
    [][ lastCall'.op = "updateUserProfile"
        => /\ Len(visa_users') = Len(visa_users)
           /\ \A i \in 1..Len(visa_users) : visa_users'[i].email = visa_users[i].email
           /\ lastResult'.success =>
                LET userIndex == FindIndex(visa_users, LAMBDA u : u.id = lastCall'.args[1])
                IN  /\ userIndex # 0
                    /\ visa_users'[userIndex].profile.email = visa_users[userIndex].email ]_vars

\* a profile update that carried another email has succeeded
C9_Witness ==
    /\ lastCall.op = "updateUserProfile"
    /\ lastResult.success
    /\ Has(lastCall.args[2], "email")
    /\ lastCall.args[2].email # lastResult.user.email

\* C10: every application addApplication appends has a userId that is the id of
\* a user in the users collection.
C10_AppendedOwnerExists ==
    (lastCall.op = "addApplication" /\ lastResult.success)
    => \E i \in 1..Len(visa_users) : visa_users[i].id = lastResult.application.userId

\* the id of the user the CurrentSession holds, Null when there is no session
SessionId(session) == IF session = Null THEN Null ELSE Some(session[1].id)

\* C11: updateApplication(userId, applicationId, fields) succeeds only if an
\* application with that id and that userId exists; when the applications with
\* that id all belong to other users it returns a failure and leaves the
\* canonical applications collection as it was.
C11_UpdateEnforcesOwnership ==
    [][ lastCall'.op = "updateApplication"
        => LET userId == lastCall'.args[1]
               applicationId == lastCall'.args[2]
               withId == {i \in 1..Len(visa_applications) : visa_applications[i].id = applicationId}
               owned == {i \in withId : visa_applications[i].userId = userId}
           IN  /\ lastResult'.success => owned # {}
               /\ (withId # {} /\ owned = {})
                    => /\ lastResult' = Failure("Application not found")
                       /\ visa_applications' = visa_applications ]_vars

\* an update of another user's application was refused
C11_Witness ==
    /\ lastCall.op = "updateApplication"
    /\ lastResult = Failure("Application not found")
    /\ \E i \in 1..Len(visa_applications) :
          /\ visa_applications[i].id = lastCall.args[2]
          /\ visa_applications[i].userId # lastCall.args[1]
          /\ \E j \in 1..Len(visa_users) : visa_users[j].id = lastCall.args[1]

\* C12: updateUserProfile(userId, fields) replaces the CurrentSession with the
\* updated user's password-stripped snapshot when the session holds that same
\* user, and leaves the CurrentSession as it was when it holds another user or
\* is absent.
C12_ProfileUpdateSyncsOwnSessionOnly ==
    [][ (lastCall'.op = "updateUserProfile" /\ lastResult'.success)
        => LET userId == lastCall'.args[1]
               userIndex == FindIndex(visa_users', LAMBDA u : u.id = userId)
           IN  IF SessionId(visa_current_user) = Some(userId)
               THEN visa_current_user' = Some(Delete(visa_users'[userIndex], "password"))
               ELSE visa_current_user' = visa_current_user ]_vars

\* C13: the identity of the logged-in user changes only through registerUser,
\* loginUser and logoutUser; addApplication and deleteApplication for a user
\* who is not the logged-in one neither create a session nor replace another
\* user's session.
C13_OnlyAuthCallsChangeSessionUser ==
    [][ lastCall'.op \in {"addApplication", "deleteApplication"}
        => /\ SessionId(visa_current_user') = SessionId(visa_current_user)
           /\ SessionId(visa_current_user) # Some(lastCall'.args[1])
                => visa_current_user' = visa_current_user ]_vars

\* C14: when registerUser succeeds, the users collection has exactly one more
\* user, the users stored before are unchanged, the new user's stored email is
\* the supplied email trimmed and lower-cased, its applications list is empty,
\* and the CurrentSession holds the new user.
C14_RegisterAppendsNormalizedUser ==
    [][ (impl = "storage" /\ lastCall'.op = "registerUser" /\ lastResult'.success)
        => LET n == Len(visa_users)
               newUser == visa_users'[n + 1]
           IN  /\ Len(visa_users') = n + 1
               /\ \A i \in 1..n : visa_users'[i] = visa_users[i]
               /\ newUser.email = ToLowerCase(Trim(lastCall'.args[1].email))
               /\ newUser.applications = <<>>
               /\ visa_current_user' # Null
               /\ Delete(visa_current_user'[1], "password") = Delete(newUser, "password") ]_vars

\* a registration with an email typed with surrounding whitespace or capitals
\* has succeeded after another user was stored
C14_Witness ==
    /\ impl = "storage"
    /\ lastCall.op = "registerUser"
    /\ lastResult.success
    /\ lastCall.args[1].email # lastResult.user.email
    /\ Len(visa_users) = 2

\* C16: loginUser with an email that matches no stored user, letter case
\* ignored, returns a failure (the not-found one when both fields were entered)
\* and leaves the CurrentSession as it was; loginUser with the email and the
\* stored password of a stored user succeeds, sets the CurrentSession to the
\* password-stripped copy of such a user's record, and leaves the users
\* collection as it was.
C16_LoginFindsUserAndSetsSession ==
    [][ (impl = "storage" /\ lastCall'.op = "loginUser")
        => LET email == lastCall'.args[1]
               password == lastCall'.args[2]
               found == SameEmail(visa_users, email)
               matching == {i \in found : /\ Has(visa_users[i], "password")
                                          /\ visa_users[i].password = password}
           IN  /\ found = {}
                    => /\ lastResult'.success = FALSE
                       /\ (email # <<>> /\ password # <<>>)
                            => lastResult'.message = "No account found with this email address"
                       /\ visa_current_user' = visa_current_user
               /\ (matching # {} /\ email # <<>> /\ password # <<>>)
                    => /\ lastResult'.success
                       /\ \E i \in matching :
                            visa_current_user' = Some(Delete(visa_users[i], "password"))
                       /\ visa_users' = visa_users ]_vars

\* C17: logoutUser leaves the CurrentSession absent and the users and
\* applications collections (and every other stored key) as they were; called
\* with no session, or right after another logoutUser, it changes nothing.
C17_LogoutClearsSessionIdempotently ==
    [][ lastCall'.op = "logoutUser"
        => /\ visa_current_user' = Null /\ visa_guide_current_user' = Null
           /\ UNCHANGED <<visa_users, visa_applications, usrCount, appCount>>
           /\ UNCHANGED <<visa_guide_users, guideCount, guideDataVars>>
           /\ CurrentSession = Null => UNCHANGED <<storageVars, guideVars>>
           /\ lastCall.op = "logoutUser" => UNCHANGED vars ]_vars

\* a logout has been called while users were stored
C17_Witness ==
    /\ lastCall.op = "logoutUser"
    /\ CurrentSession = Null
    /\ StoredUsers # <<>>

\* C15: registerUser with an empty email, an empty password or an empty name
\* returns the validation failure and leaves the users collection and the
\* CurrentSession as they were, in storage.js's registerUser and in
\* Auth.register.
C15_EmptyFieldRegistrationRejected ==
    [][ (\/ /\ lastCall'.op = "registerUser" /\ impl = "storage"
            /\ \E k \in {"email", "password", "name"} : lastCall'.args[1][k] = <<>>
         \/ /\ lastCall'.op = "Auth.register"
            /\ \E k \in {1, 2, 4} : lastCall'.args[k] = <<>>)
        => /\ lastResult' = Failure("Please fill in all required fields")
           /\ StoredUsers' = StoredUsers
           /\ CurrentSession' = CurrentSession ]_vars

\* a registration with an empty field was refused while a user was logged in
C15_Witness ==
    /\ lastCall.op \in {"registerUser", "Auth.register"}
    /\ lastResult = Failure("Please fill in all required fields")
    /\ StoredUsers # <<>>
    /\ CurrentSession # Null

\* C18: updateUserPassword(userId, newPassword) for an absent userId returns
\* the not-found failure and writes nothing; for a stored user it overwrites
\* that user's password only (every other user, the applications and the
\* CurrentSession stay as they were), so that the old password, when different,
\* no longer matches, and a loginUser that follows with the user's email and
\* newPassword succeeds.
C18_PasswordUpdateTakesEffect ==
    [][ /\ (impl = "storage" /\ lastCall'.op = "updateUserPassword")
            => LET userId == lastCall'.args[1]
                   newPassword == lastCall'.args[2]
                   userIndex == FindIndex(visa_users, LAMBDA u : u.id = userId)
               IN  IF userIndex = 0
                   THEN /\ lastResult' = Failure("User not found")
                        /\ UNCHANGED storageVars
                   ELSE /\ lastResult'.success
                        /\ visa_users' = [visa_users EXCEPT ![userIndex] =
                                             Spread(@, [password |-> newPassword])]
                        /\ UNCHANGED <<visa_applications, visa_current_user>>
        /\ (/\ impl = "storage"
            /\ lastCall.op = "updateUserPassword" /\ lastResult.success
            /\ lastCall'.op = "loginUser"
            /\ \E i \in 1..Len(visa_users) :
                  /\ visa_users[i].id = lastCall.args[1]
                  /\ visa_users[i].email = lastCall'.args[1]
            /\ lastCall'.args[2] = lastCall.args[2])
            => lastResult'.success ]_vars

\* C19: Auth.deleteAccount(password) by a logged-in user with a password that
\* does not verify against that user's stored password returns a failure and
\* changes nothing; with one that verifies it removes exactly that user from
\* the users collection, keeps every other user, and leaves the CurrentSession
\* absent.
C19_DeleteAccountRemovesOnlyCaller ==
    [][ (lastCall'.op = "Auth.deleteAccount" /\ visa_guide_current_user # Null)
        => LET userId == visa_guide_current_user[1].id
               userIndex == FindIndex(visa_guide_users, LAMBDA u : u.id = userId)
           IN  /\ userIndex # 0
               /\ IF hashPassword(lastCall'.args[1]) # visa_guide_users[userIndex].password
                  THEN /\ lastResult'.success = FALSE
                       /\ UNCHANGED guideVars
                  ELSE /\ lastResult'.success
                       /\ visa_guide_users' =
                            [i \in 1..(Len(visa_guide_users) - 1) |->
                                visa_guide_users[IF i < userIndex THEN i ELSE i + 1]]
                       /\ visa_guide_current_user' = Null ]_vars

\* an account was deleted and another registered user is still stored
C19_Witness ==
    /\ lastCall.op = "Auth.deleteAccount"
    /\ lastResult.success
    /\ visa_guide_users # <<>>
    /\ visa_guide_current_user = Null

\* C20: updateApplicationStatus(applicationId, status, adminNotes) on a stored
\* application, whoever owns it, sets its status and adminNotes to the given
\* values and leaves every other application as it was; approvedAt is stamped
\* with the time of the call when status is 'approved' and is otherwise left
\* as it was (absent or the earlier stamp).
C20_StatusUpdateStampsApprovalOnly ==
    [][ lastCall'.op = "updateApplicationStatus"
        => LET applicationId == lastCall'.args[1]
               status == lastCall'.args[2]
               adminNotes == lastCall'.args[3]
               appIndex == FindIndex(visa_applications, LAMBDA app : app.id = applicationId)
           IN  appIndex # 0
               => /\ lastResult'.success
                  /\ Len(visa_applications') = Len(visa_applications)
                  /\ \A j \in 1..Len(visa_applications) :
                        j # appIndex => visa_applications'[j] = visa_applications[j]
                  /\ visa_applications'[appIndex].status = status
                  /\ visa_applications'[appIndex].adminNotes = adminNotes
                  /\ visa_applications'[appIndex].userId = visa_applications[appIndex].userId
                  /\ IF status = "approved"
                     THEN /\ Has(visa_applications'[appIndex], "approvedAt")
                          /\ visa_applications'[appIndex].approvedAt \in Timestamps
                     ELSE /\ Has(visa_applications'[appIndex], "approvedAt")
                                = Has(visa_applications[appIndex], "approvedAt")
                          /\ Has(visa_applications[appIndex], "approvedAt")
                               => visa_applications'[appIndex].approvedAt
                                    = visa_applications[appIndex].approvedAt ]_vars

\* an approved application with its earlier stamp was set to another status by
\* a call that gave admin notes
C20_Witness ==
    /\ lastCall.op = "updateApplicationStatus"
    /\ lastResult.success
    /\ lastResult.application.status = "rejected"
    /\ lastResult.application.adminNotes # <<>>
    /\ Has(lastResult.application, "approvedAt")
    /\ lastResult.application.approvedAt \notin Timestamps

\* C21: updateApplication and updateApplicationStatus, whether they succeed or
\* fail, leave the users collection (every embedded summary included) and the
\* CurrentSession exactly as they were.
C21_UpdatesWriteApplicationsOnly ==
    [][ lastCall'.op \in {"updateApplication", "updateApplicationStatus"}
        => /\ visa_users' = visa_users
           /\ visa_current_user' = visa_current_user ]_vars

\* a status update has succeeded on an application that its logged-in owner's
\* embedded summary lists
C21_Witness ==
    /\ lastCall.op = "updateApplicationStatus"
    /\ lastResult.success
    /\ visa_current_user # Null
    /\ \E j \in 1..Len(EmbeddedSummary(visa_current_user[1])) :
          EmbeddedSummary(visa_current_user[1])[j].id = lastCall.args[1]

\* the number of canonical applications of userId that satisfy P
CanonicalCount(userId, P(_)) ==
    Cardinality({i \in 1..Len(visa_applications) :
                    visa_applications[i].userId = userId /\ P(visa_applications[i])})

\* C22: getUserApplicationStats(userId) counts the canonical applications with
\* that userId: total is their number and pending, approved, rejected and draft
\* are the numbers of those with that status, whatever the embedded summary
\* says; after register, addApplication and updateApplicationStatus(id,
\* 'approved') on a user's only application the stats are total 1, approved 1,
\* pending 0.
C22_StatsCountCanonicalApplications ==
    /\ \A userId \in UserIds :
          LET stats == getUserApplicationStats(userId) IN
          /\ stats.total = CanonicalCount(userId, LAMBDA a : TRUE)
          /\ \A st \in {"pending", "approved", "rejected", "draft"} :
                stats[st] = CanonicalCount(userId, LAMBDA a : a.status = st)
    /\ (/\ lastCall.op = "updateApplicationStatus" /\ lastResult.success
        /\ lastCall.args[2] = "approved"
        /\ CanonicalCount(lastResult.application.userId, LAMBDA a : TRUE) = 1)
        => getUserApplicationStats(lastResult.application.userId)
             = [total |-> 1, pending |-> 0, approved |-> 1, rejected |-> 0, draft |-> 0]

\* a user's only application was approved while the user's embedded summary
\* still lists it as pending
C22_Witness ==
    /\ lastCall.op = "updateApplicationStatus" /\ lastResult.success
    /\ lastCall.args[2] = "approved"
    /\ getUserApplicationStats(lastResult.application.userId).approved = 1
    /\ \E i \in 1..Len(visa_users) :
          /\ visa_users[i].id = lastResult.application.userId
          /\ Len(EmbeddedSummary(visa_users[i])) = 1
          /\ EmbeddedSummary(visa_users[i])[1].id = lastResult.application.id
          /\ EmbeddedSummary(visa_users[i])[1].status = "pending"

\* the value stored under a user's key of one prefix, Null when the key is absent
Stored(store, userId) == IF userId \in DOMAIN store THEN Some(store[userId]) ELSE Null

\* every record the getters return for B carries B's id
OwnRecordsOnly(B) ==
    /\ getUserData(B) # Null => getUserData(B)[1].profile.owner = B
    /\ \A i \in 1..Len(getDocuments(B)) : getDocuments(B)[i].name = B
    /\ \A formType \in DOMAIN getAllForms(B) : getFormData(B, formType)[1].data = B
    /\ \A i \in 1..Len(getChatHistory(B)) : getChatHistory(B)[i].content = B
    /\ \A i \in 1..Len(getCivicsProgress(B).missedQuestions) :
          getCivicsProgress(B).missedQuestions[i] = B

\* C23: a per-user operation on user A's records (updateUserData, addDocument,
\* deleteDocument, saveFormData, addChatMessage, clearChatHistory,
\* updateCivicsProgress) leaves the user data, documents, forms, chat history
\* and civics progress stored for every other user B as they were, and the
\* getters for B return only records written for B.
C23_PerUserStoresAreIsolated ==
    [][ lastCall'.op \in {"updateUserData", "addDocument", "deleteDocument", "saveFormData",
                          "addChatMessage", "clearChatHistory", "updateCivicsProgress"}
        => \A B \in DataUserIds \ {lastCall'.args[1]} :
             /\ Stored(visa_guide_user_data', B) = Stored(visa_guide_user_data, B)
             /\ Stored(visa_guide_documents', B) = Stored(visa_guide_documents, B)
             /\ Stored(visa_guide_forms', B) = Stored(visa_guide_forms, B)
             /\ Stored(visa_guide_chat_history', B) = Stored(visa_guide_chat_history, B)
             /\ Stored(visa_guide_civics_progress', B) = Stored(visa_guide_civics_progress, B)
             /\ OwnRecordsOnly(B)' ]_vars

\* a document was added for one user while the other user holds records in
\* every store
C23_Witness ==
    /\ lastCall.op = "addDocument"
    /\ \E B \in DataUserIds \ {lastCall.args[1]} :
          /\ getUserData(B) # Null
          /\ getDocuments(B) # <<>>
          /\ getAllForms(B) # EmptyObject
          /\ getChatHistory(B) # <<>>
          /\ B \in DOMAIN visa_guide_civics_progress

\* C24: in every reachable state, a user created by importUserData included,
\* the registry operation last called has returned a result and has not ended
\* in a thrown exception.
C24_RegistryCallsReturnResult ==
    "threw" \notin DOMAIN lastResult

StatusEnum == {"pending", "approved", "rejected", "draft"}

C27_NotFoundWritesNothing ==
    [][ LET op == lastCall'.op
            NoUser(userId) == \A i \in 1..Len(visa_users) : visa_users[i].id # userId
            NoOwned(userId, applicationId) ==
                \A i \in 1..Len(visa_applications) :
                    ~(visa_applications[i].id = applicationId /\ visa_applications[i].userId = userId)
            NoApplication(applicationId) ==
                \A i \in 1..Len(visa_applications) : visa_applications[i].id # applicationId
            Untouched == UNCHANGED <<visa_users, visa_applications, visa_current_user>>
        IN  /\ (op \in {"addApplication", "updateUserProfile", "updateUserPassword"}
                /\ NoUser(lastCall'.args[1]))
                => lastResult' = Failure("User not found") /\ Untouched
            /\ (op \in {"updateApplication", "deleteApplication"}
                /\ NoOwned(lastCall'.args[1], lastCall'.args[2]))
                => lastResult' = Failure("Application not found") /\ Untouched
            /\ (op = "updateApplicationStatus" /\ NoApplication(lastCall'.args[1]))
                => lastResult' = Failure("Application not found") /\ Untouched
            /\ (/\ op \in {"addApplication", "updateUserProfile", "updateUserPassword",
                            "updateApplication", "deleteApplication", "updateApplicationStatus"}
                /\ lastResult' \in {Failure("User not found"), Failure("Application not found")})
                => Untouched ]_vars

\* an operation returned a not-found failure while users, applications and a
\* session were stored
C27_Witness ==
    /\ lastCall.op \in {"addApplication", "updateApplication", "deleteApplication"}
    /\ lastResult \in {Failure("User not found"), Failure("Application not found")}
    /\ visa_users # <<>> /\ visa_applications # <<>> /\ visa_current_user # Null

\* C25: when a write of the substrate fails during registerUser,
\* addApplication, deleteApplication, updateApplication or updateUserProfile,
\* the operation returns a failure and not a success.
C25_FailedWriteReturnsFailure ==
    [][ "failed" \in DOMAIN lastCall' => lastResult'.success = FALSE ]_vars

\* the ids of the canonical applications owned by userId
CanonicalIds(applications, userId) ==
    {applications[i].id : i \in {j \in 1..Len(applications) : applications[j].userId = userId}}

\* the ids in the summary list embedded in the stored user userId
SummaryIds(users, userId) ==
    UNION {IF Has(users[i], "applications")
           THEN {users[i].applications[j].id : j \in 1..Len(users[i].applications)}
           ELSE {} : i \in {k \in 1..Len(users) : users[k].id = userId}}

\* C28: addApplication and deleteApplication are not atomic: when the write of
\* the users key fails after the write of the applications key took effect,
\* the call still returns success, the canonical collection holds the change
\* (the new application is there, the deleted one is gone) and the users key,
\* with the owner's embedded summary, is as it was before the call.
C28_UsersWriteFailureSplitsTheCopies ==
    [][ ( /\ lastCall'.op \in {"addApplication", "deleteApplication"}
          /\ "failed" \in DOMAIN lastCall'
          /\ "visa_users" \in lastCall'.failed
          /\ "visa_applications" \notin lastCall'.failed )
        => /\ lastResult'.success = TRUE
           /\ visa_users' = visa_users
           /\ LET userId == lastCall'.args[1] IN
              IF lastCall'.op = "addApplication"
              THEN /\ lastResult'.application.id \in CanonicalIds(visa_applications', userId)
                   /\ lastResult'.application.id \notin CanonicalIds(visa_applications, userId)
                   /\ lastResult'.application.id \notin SummaryIds(visa_users', userId)
              ELSE /\ lastCall'.args[2] \in CanonicalIds(visa_applications, userId)
                   /\ lastCall'.args[2] \notin CanonicalIds(visa_applications', userId) ]_vars

\* after a call whose users write failed, the canonical collection and the
\* owner's embedded summary disagree about which application ids exist
C28_Witness ==
    /\ lastCall.op \in {"addApplication", "deleteApplication"}
    /\ "failed" \in DOMAIN lastCall
    /\ lastCall.failed = {"visa_users"}
    /\ lastResult.success = TRUE
    /\ CanonicalIds(visa_applications, lastCall.args[1]) # SummaryIds(visa_users, lastCall.args[1])

\* C30: addChatMessage on a history m1..mk stores the last min(k+1, 100)
\* elements of m1..mk followed by the new message, in that order: the oldest
\* entries are the ones evicted and the new message is the last element.
C30_ChatKeepsNewestInOrder ==
    [][ lastCall'.op = "addChatMessage" =>
          LET userId == lastCall'.args[1]
              message == lastCall'.args[2]
              before == IF userId \in DOMAIN visa_guide_chat_history
                        THEN visa_guide_chat_history[userId] ELSE <<>>
              after == visa_guide_chat_history'[userId]
              k == Len(before)
              n == IF k + 1 < 100 THEN k + 1 ELSE 100
          IN  /\ Len(after) = n
              /\ after[n].role = message.role /\ after[n].content = message.content
              /\ after[n].timestamp \in Timestamps
              /\ \A i \in 1..(n - 1) : after[i] = before[k + 1 - n + i] ]_vars

\* the history held messages 1..100 and message 101 was added: message 1 was
\* evicted, 2..101 are stored in order
C30_Witness ==
    /\ lastCall.op = "addChatMessage"
    /\ spliced = 1
    /\ LET history == visa_guide_chat_history[lastCall.args[1]]
       IN  /\ Len(history) = 100
           /\ \A i \in 1..100 : history[i].content = i + 1

\* C29: when two tabs run addApplication and their reads and writes of the
\* applications key interleave, nothing detects it and the last writer wins:
\* each tab writes the array it read earlier with its own new application
\* pushed, whatever the key holds by then, and each call that found its user
\* returns success.
C29_LastWriterWins ==
    [][ \A tab \in Tabs :
          /\ (tabs[tab].pc = "setApplications" /\ tabs'[tab].pc = "getUsers")
              => /\ visa_applications' = tabs[tab].applications
                 /\ tabs[tab].applications[Len(tabs[tab].applications)] = tabs[tab].newApplication
          /\ (tabs[tab].pc \in {"getUsers", "setCurrentUser"} /\ tabs'[tab].pc = "returned")
              => tabs'[tab].result = Success([application |-> tabs[tab].newApplication]) ]_vars

\* both tabs returned success and the canonical collection holds only one of
\* the two new applications
C29_Witness ==
    /\ \A tab \in Tabs : tabs[tab].pc = "returned" /\ tabs[tab].result.success = TRUE
    /\ tabs[1].newApplication.id # tabs[2].newApplication.id
    /\ Len(visa_applications) = 1
    /\ \E tab \in Tabs : visa_applications[1].id = tabs[tab].newApplication.id

\* C31: in every reachable state no two applications of the canonical
\* collection have the same id.
C31_ApplicationIdsUnique ==
    \A i, j \in 1..Len(visa_applications) :
        visa_applications[i].id = visa_applications[j].id => i = j

\* C33: a loginUser(email, password) that follows a logoutUser, when the user
\* registered last was registered from that email and that password (its
\* stored email is the email trimmed and lower-cased), succeeds and logs that
\* user in; the email may have upper-case letters or surrounding whitespace.
C33_RegisterLogoutLoginSucceeds ==
    [][ ( /\ lastCall.op = "logoutUser"
          /\ lastCall'.op = "loginUser"
          /\ lastCall'.args[1] \in RoundTripEmails
          /\ visa_users # <<>>
          /\ visa_users[Len(visa_users)].email = ToLowerCase(Trim(lastCall'.args[1]))
          /\ "password" \in DOMAIN visa_users[Len(visa_users)]
          /\ visa_users[Len(visa_users)].password = lastCall'.args[2] )
        => /\ lastResult'.success = TRUE
           /\ lastResult'.user.id = visa_users[Len(visa_users)].id ]_vars

\* C32: after a successful updateApplication(userId, applicationId, fields),
\* whatever the fields, the updated application has id applicationId and
\* userId userId.
C32_UpdateKeepsIdAndOwner ==
    [][ (lastCall'.op = "updateApplication" /\ lastResult'.success = TRUE)
        => /\ lastResult'.application.id = lastCall'.args[2]
           /\ lastResult'.application.userId = lastCall'.args[1] ]_vars

\* C35: importUserData fails and changes nothing when the data has no user
\* email or a stored user has that email in any letter case; otherwise it
\* appends the user and all the given applications; and after the import of
\* what exportUserData(u) returned into a store that has no user and no
\* application of u, getUserApplications(u.id) is the exported applications
\* and the embedded summary of the imported user lists the same ids.
C35_ImportRestoresExport ==
    [][ lastCall'.op = "importUserData" =>
          LET data == lastCall'.args[1]
              NoEmail == "user" \notin DOMAIN data \/ "email" \notin DOMAIN data.user
                         \/ data.user.email = <<>>
              Untouched == UNCHANGED <<visa_users, visa_applications, visa_current_user>>
          IN  IF NoEmail
              THEN lastResult'.success = FALSE /\ Untouched
              ELSE IF SameEmail(visa_users, data.user.email) # {}
              THEN lastResult'.success = FALSE /\ Untouched
              ELSE /\ lastResult'.success = TRUE
                   /\ visa_users' = Append(visa_users, data.user)
                   /\ visa_applications' =
                         visa_applications \o (IF "applications" \in DOMAIN data
                                               THEN data.applications ELSE <<>>)
                   /\ ( /\ data = exported
                        /\ CanonicalIds(visa_applications, data.user.id) = {}
                        /\ SummaryIds(visa_users, data.user.id) = {} )
                      => /\ SelectSeq(visa_applications', LAMBDA app : app.userId = data.user.id)
                              = data.applications
                         /\ SummaryIds(visa_users', data.user.id)
                              = {data.applications[i].id : i \in 1..Len(data.applications)} ]_vars

\* the embedded applications list of a user record, absent or present
EmbeddedList(user) == IF Has(user, "applications") THEN Some(user.applications) ELSE Null

\* C34: in every reachable state, when CurrentSession is present its id is the
\* id of a stored user, and its embedded applications list equals the embedded
\* applications list of that stored user.
C34_SessionMatchesStoredUser ==
    CurrentSession # Null =>
        \E i \in 1..Len(StoredUsers) :
            /\ StoredUsers[i].id = CurrentSession[1].id
            /\ EmbeddedList(StoredUsers[i]) = EmbeddedList(CurrentSession[1])

=============================================================================
